---- MODULE Spec2Model ----
(***************************************************************************)
(* Job orchestration of the VixfloStream downloader (src/app/main.py):     *)
(* the job registry _jobs, the two-thread worker pool _executor, the       *)
(* Runner _run_ytdlp executed statement by statement on a pool thread, the *)
(* download request handler start_download and the status query            *)
(* job_status, which reads the fields of a job one after the other while   *)
(* the Runner may be writing them; the files of a job's working directory  *)
(* and the artifact retrieval download_file; the preview operation with    *)
(* its locked, time-stamped cache; the classification of failures.         *)
(***************************************************************************)
EXTENDS Integers, Sequences, FiniteSets, TLC

VARIABLES
  jobs,        \* _jobs: job id -> Job (status, filename, error, url)
  futures,     \* _futures: job id -> state of the Future of its task
  work_queue,  \* the executor's FIFO queue of submitted job ids
  wpc,         \* worker thread -> position inside its current task
  wjob,        \* worker thread -> job id of the task it executes (0: none)
  wexc,        \* worker thread -> text of the exception being handled
  wlog,        \* worker thread -> logger.lines of the running task
  wproduced,   \* worker thread -> name of the produced file
  dpc,         \* start_download: position of the request in flight
  djob,        \* start_download: job id of the request in flight (0: none)
  ppc,         \* job_status: position of the status query in flight
  pjob,        \* job_status: job id being queried (0: none)
  pread,       \* job_status: the fields read so far
  resp,        \* job_status: the last response returned
  held,        \* history: job id -> the (status, filename, error) triples it held
  started,     \* history: job ids in the order workers picked them up
  submitted,   \* history: job ids in the order they were submitted
  waited,      \* history: job ids submitted while every worker was busy
  fetchRaised, \* history: job id -> text the extractor raised during fetch
  dreq,        \* start_download: the url form field of the last request
  dcode,       \* start_download: its HTTP status (0: in flight or none)
  fs,          \* the files under DOWNLOADS_DIR: [job, name, size, mtime]
  fetched,     \* history: [job, files, kind], the directory when the fetch returned
  finfail,     \* history: [job, step], finalization steps that raised
  winfo,       \* worker -> the info extract_info returned
  apc,         \* download_file: position of the request in flight
  ajob,        \* download_file: job id requested (0: none)
  aresp,       \* download_file: the last response returned
  preview_cache, \* _preview_cache: url -> Preview
  preview_lock,  \* _preview_lock: the request thread holding it (0: free)
  now,         \* time.time(), in seconds
  ticks,       \* number of times the clock was advanced
  nprev,       \* number of preview requests issued
  qpc,         \* preview: request thread -> position
  qurl,        \* preview: request thread -> url (stripped)
  qreq,        \* preview: request thread -> the url parameter of its request
  qnow,        \* preview: request thread -> its local `now` (line 528)
  qval,        \* preview: request thread -> title the adapter returned
  qresp,       \* preview: request thread -> the last response returned
  stored,      \* history: url -> the Preview written by the last line 614
  calls,       \* history: url -> number of adapter calls (extract_info)
  cin,         \* classification: <<error text, url, cookiefile, logger.lines>>
  cout,        \* classification: the message built from cin
  sname,       \* _sanitize_filename: its argument
  sclean,      \* _sanitize_filename: its result
  pathfs,      \* _dedupe_path: the names that exist in the directory
  pathwant,    \* _dedupe_path: the desired name
  pathgot,     \* _dedupe_path: the names returned by the calls made so far
  optin,       \* fetch options: what they are built from
  optout,      \* fetch options: ydl_opts
  loglines,    \* _JobLogger.lines
  logall,      \* history: every line _add has appended
  logcalls,    \* number of calls of the logger's methods
  logverbose,  \* whether AVE_YTDLP_VERBOSE is set
  logmsg       \* the error message built from the log

vars == <<jobs, futures, work_queue, wpc, wjob, wexc, wlog, wproduced,
          dpc, djob, ppc, pjob, pread, resp, held, started, submitted,
          waited, fetchRaised, dreq, dcode, fs, fetched, finfail, winfo, apc, ajob, aresp,
          preview_cache, preview_lock, now, ticks, nprev, qpc, qreq, qurl, qnow,
          qval, qresp, stored, calls, cin, cout, sname, sclean, pathfs, pathwant,
          pathgot, optin, optout, loglines, logall, logcalls, logverbose, logmsg>>

wvars == <<wpc, wjob, wexc, wlog, wproduced>>
dvars == <<dpc, djob>>
pvars == <<ppc, pjob, pread, resp>>
rqvars == <<dreq, dcode>>
fvars == <<fs, fetched, finfail, winfo>>
avars == <<apc, ajob, aresp>>
cachevars == <<preview_cache, stored, calls>>
clockvars == <<now, ticks>>
qvars == <<preview_lock, nprev, qpc, qreq, qurl, qnow, qval, qresp>>
rvars == <<cachevars, clockvars, qvars>>
svars == <<sname, sclean>>
pathvars == <<pathfs, pathwant, pathgot>>
optvars == <<optin, optout>>
logvars == <<loglines, logall, logcalls, logverbose, logmsg>>
fnvars == <<svars, pathvars, optvars, logvars>>
cvars == <<cin, cout, fnvars>>

-----------------------------------------------------------------------------
(* Bounds and program constants *)

MaxJobs == 2

MaxPoolJobs == 4

MaxFairJobs == 3

ThreeWorkers == 2 + 1

max_workers == 2

LogTailLen == 25

Workers == 1..max_workers

\* Python's None, as a file name and as a text.
NoName == "<None>"

NoText == <<"<None>">>

NoJob == 0

NoRead == [status |-> "-", filename |-> NoName, error |-> NoText]

NoResp == [code |-> 0, id |-> NoJob, status |-> "-", filename |-> NoName, error |-> NoText]

-----------------------------------------------------------------------------
(* Texts are sequences of chunks; a needle is searched as a run of chunks. *)

Contains(s, sub) ==
  \E i \in 1..(Len(s) - Len(sub) + 1) : SubSeq(s, i, i + Len(sub) - 1) = sub

IsPrefix(p, s) == Len(p) <= Len(s) /\ SubSeq(s, 1, Len(p)) = p

LowerChunk(c) ==
  CASE c = "Video" -> "video"
    [] c = "Unsupported" -> "unsupported"
    [] c = "URL" -> "url"
    [] c = "Unavailable" -> "unavailable"
    [] c = "Facebook" -> "facebook"
    [] c = "Downloaded file is empty" -> "downloaded file is empty"
    [] OTHER -> c

Lower(s) == [i \in 1..Len(s) |-> LowerChunk(s[i])]

Tail25(lines) ==
  IF Len(lines) <= LogTailLen THEN lines
  ELSE SubSeq(lines, Len(lines) - LogTailLen + 1, Len(lines))

\* What the extractor raises during fetch, as <<text, logger.lines>>: an
\* error it also logged, or an exception with no text (the Runner falls back
\* to the class name of the exception) and nothing logged.
VideoUnavailable == <<"ERROR:", "Video", "unavailable">>

FetchFailures ==
  { <<VideoUnavailable, <<"[error] Video unavailable">>>>, << <<>>, <<>> >> }

ExcClassName == <<"DownloadError">>

NoFileError == <<"Nu s-a generat niciun fisier.">>

EmptyFileError == <<"Fisierul descarcat este gol (", "0", "bytes", ").">>

\* A URL is a text too; the chunk " " stands for a run of whitespace.
YoutubeUrl == <<"https://youtu.be/abc">>

FacebookUrl == <<"https://www.", "Facebook", ".com/watch?v=1">>

Urls == { YoutubeUrl }

RECURSIVE LStrip(_)
LStrip(s) == IF s # <<>> /\ Head(s) = " " THEN LStrip(Tail(s)) ELSE s

RECURSIVE RStrip(_)
RStrip(s) ==
  IF s # <<>> /\ s[Len(s)] = " " THEN RStrip(SubSeq(s, 1, Len(s) - 1)) ELSE s

Strip(s) == RStrip(LStrip(s))

IdName == "id.mp4"

NiceName == "title [id].mp4"

ProducedNames == {IdName, NiceName}

\* The same rules, the one of the empty file tried first.
HintBadOrder(base, url, cookiefile) ==
  LET low == Lower(base) IN
  IF Contains(low, <<"downloaded file is empty">>) \/ Contains(low, <<"0", "bytes">>)
    THEN <<"hint: empty file">>
  ELSE IF Contains(low, <<"video", "unavailable">>) \/ Contains(low, <<"unavailable">>)
    THEN <<"hint: unavailable">>
  ELSE IF Contains(low, <<"unsupported", "url">>)
    THEN <<"hint: unsupported url">>
  ELSE IF Contains(Lower(url), <<"facebook">>) /\ ~cookiefile
    THEN <<"hint: facebook cookies">>
  ELSE <<>>

\* Lines 496-506.
Hint(base, url, cookiefile) ==
  LET low == Lower(base) IN
  IF Contains(low, <<"video", "unavailable">>) \/ Contains(low, <<"unavailable">>)
    THEN <<"hint: unavailable">>
  ELSE IF Contains(low, <<"downloaded file is empty">>) \/ Contains(low, <<"0", "bytes">>)
    THEN <<"hint: empty file">>
  ELSE IF Contains(low, <<"unsupported", "url">>)
    THEN <<"hint: unsupported url">>
  ELSE IF Contains(Lower(url), <<"facebook">>) /\ ~cookiefile
    THEN <<"hint: facebook cookies">>
  ELSE <<>>

LogTail(lines) ==
  IF lines # <<>> THEN <<"Detalii (yt-dlp):">> \o Tail25(lines) ELSE <<>>

ErrorMessageBadOrder(exc, url, cookiefile, lines) ==
  LET base == IF exc # <<>> THEN exc ELSE ExcClassName
  IN LogTail(lines) \o Hint(base, url, cookiefile) \o base

ErrorMessage(exc, url, cookiefile, lines) ==
  LET base == IF exc # <<>> THEN exc ELSE ExcClassName
  IN base \o Hint(base, url, cookiefile) \o LogTail(lines)

-----------------------------------------------------------------------------
(* The registry *)

\* Line 646: job_id, a uuid4 hex string; the j-th one drawn.
JobIdText(j) == "job" \o ToString(j)

\* Lines 163-164 and 639-640: the download_type and audio_format fields of
\* the form.
DownloadTypes == {"video", "audio"}

AudioFormats == {"mp3", "original"}

Forms == DownloadTypes \X AudioFormats

\* A video download; audio_format has its default, Form("mp3").
DefaultForm == <<"video", "mp3">>

\* Lines 646-653: Job(id, status="queued", download_type, audio_format, url).
NewJob(id, u, download_type, audio_format) ==
  [id |-> id, status |-> "queued", download_type |-> download_type,
   audio_format |-> audio_format, url |-> u, filename |-> NoName, error |-> NoText]

Triple(job) == <<job.status, job.filename, job.error>>

Known == DOMAIN jobs

SetFieldEveryJob(j, f, v) == [k \in 1..Len(jobs) |-> [jobs[k] EXCEPT ![f] = v]]

SetField(j, f, v) == [jobs EXCEPT ![j][f] = v]

Record(j, newjobs) == [held EXCEPT ![j] = @ \cup {Triple(newjobs[j])}]

NoReq == <<"<no request>">>

InitJobs ==
  /\ jobs = <<>>
  /\ futures = <<>>
  /\ work_queue = <<>>
  /\ wpc = [w \in Workers |-> "idle"]
  /\ wjob = [w \in Workers |-> NoJob]
  /\ wexc = [w \in Workers |-> NoText]
  /\ wlog = [w \in Workers |-> <<>>]
  /\ wproduced = [w \in Workers |-> NoName]
  /\ dpc = "idle"
  /\ djob = NoJob
  /\ ppc = "idle"
  /\ pjob = NoJob
  /\ pread = NoRead
  /\ resp = NoResp
  /\ held = <<>>
  /\ started = <<>>
  /\ submitted = <<>>
  /\ waited = {}
  /\ fetchRaised = <<>>
  /\ dreq = NoReq
  /\ dcode = 0

-----------------------------------------------------------------------------
(* start_download: POST /download *)

StartDownloadStoreUnchecked(u, form, limit) ==
  /\ dpc = "idle"
  /\ Len(jobs) < limit
  /\ jobs' = Append(jobs, NewJob(JobIdText(Len(jobs) + 1), Strip(u), form[1], form[2]))
  /\ held' = Append(held, {<<"queued", NoName, NoText>>})
  /\ fetchRaised' = Append(fetchRaised, NoText)
  /\ djob' = Len(jobs) + 1
  /\ dpc' = "submit"
  /\ dreq' = u
  /\ dcode' = 0
  /\ UNCHANGED <<futures, work_queue, wvars, pvars, started, submitted, waited,
                 fvars, avars, rvars, cvars>>

\* Lines 636-654: the URL `u` of the form is stripped and is not empty, a
\* fresh id is drawn, the job is stored in the registry with status queued
\* and with the download_type and audio_format of the form.
\* `limit` caps the number of requests of a run.
StartDownloadStore(u, form, limit) ==
  /\ dpc = "idle"
  /\ Strip(u) # <<>>
  /\ Len(jobs) < limit
  /\ jobs' = Append(jobs, NewJob(JobIdText(Len(jobs) + 1), Strip(u), form[1], form[2]))
  /\ held' = Append(held, {<<"queued", NoName, NoText>>})
  /\ fetchRaised' = Append(fetchRaised, NoText)
  /\ djob' = Len(jobs) + 1
  /\ dpc' = "submit"
  /\ dreq' = u
  /\ dcode' = 0
  /\ UNCHANGED <<futures, work_queue, wvars, pvars, started, submitted, waited,
                 fvars, avars, rvars, cvars>>

\* Lines 642-644: the stripped URL is empty: HTTP 400, nothing else happens.
StartDownloadRejects(u) ==
  /\ dpc = "idle"
  /\ Strip(u) = <<>>
  /\ dreq' = u
  /\ dcode' = 400
  /\ UNCHANGED <<jobs, held, fetchRaised, futures, work_queue, wvars, dvars, pvars,
                 started, submitted, waited, fvars, avars, rvars, cvars>>

\* Lines 656-669: the task is appended to the executor's queue, its Future is
\* stored, the job page is rendered and the request returns.
Saturated == \A w \in Workers : wpc[w] # "idle"

\* A submit that waits for a free worker instead of queueing.
StartDownloadSubmitBlocking ==
  /\ dpc = "submit"
  /\ ~Saturated
  /\ work_queue' = Append(work_queue, djob)
  /\ futures' = Append(futures, "pending")
  /\ submitted' = Append(submitted, djob)
  /\ waited' = waited
  /\ dpc' = "idle"
  /\ djob' = NoJob
  /\ dcode' = 200
  /\ UNCHANGED <<jobs, wvars, pvars, held, started, fetchRaised, dreq,
                 fvars, avars, rvars, cvars>>

StartDownloadSubmit ==
  /\ dpc = "submit"
  /\ work_queue' = Append(work_queue, djob)
  /\ futures' = Append(futures, "pending")
  /\ submitted' = Append(submitted, djob)
  /\ waited' = IF Saturated THEN waited \cup {djob} ELSE waited
  /\ dpc' = "idle"
  /\ djob' = NoJob
  /\ dcode' = 200
  /\ UNCHANGED <<jobs, wvars, pvars, held, started, fetchRaised, dreq,
                 fvars, avars, rvars, cvars>>

-----------------------------------------------------------------------------
(* The worker pool: ThreadPoolExecutor(max_workers=2) *)

PickupLast(w) ==
  /\ wpc[w] = "idle"
  /\ work_queue # <<>>
  /\ LET j == work_queue[Len(work_queue)] IN
       /\ wjob' = [wjob EXCEPT ![w] = j]
       /\ futures' = [futures EXCEPT ![j] = "running"]
       /\ started' = Append(started, j)
  /\ work_queue' = SubSeq(work_queue, 1, Len(work_queue) - 1)
  /\ wpc' = [wpc EXCEPT ![w] = "picked"]
  /\ UNCHANGED <<jobs, wexc, wlog, wproduced, dvars, pvars, held, submitted, waited,
                 fetchRaised, rqvars, fvars, avars, rvars, cvars>>

\* An idle worker thread takes the oldest task of the queue and calls it.
Pickup(w) ==
  /\ wpc[w] = "idle"
  /\ work_queue # <<>>
  /\ LET j == Head(work_queue) IN
       /\ wjob' = [wjob EXCEPT ![w] = j]
       /\ futures' = [futures EXCEPT ![j] = "running"]
       /\ started' = Append(started, j)
  /\ work_queue' = Tail(work_queue)
  /\ wpc' = [wpc EXCEPT ![w] = "picked"]
  /\ UNCHANGED <<jobs, wexc, wlog, wproduced, dvars, pvars, held, submitted, waited,
                 fetchRaised, rqvars, fvars, avars, rvars, cvars>>

\* A task that raised takes its worker thread down with it.
ReleaseThreadDies(w, outcome) ==
  /\ futures' = [futures EXCEPT ![wjob[w]] = outcome]
  /\ wpc' = [wpc EXCEPT ![w] = IF outcome = "raised" THEN "dead" ELSE "idle"]
  /\ wjob' = [wjob EXCEPT ![w] = NoJob]
  /\ wexc' = [wexc EXCEPT ![w] = NoText]
  /\ wlog' = [wlog EXCEPT ![w] = <<>>]
  /\ wproduced' = [wproduced EXCEPT ![w] = NoName]

\* The task returned or raised: the Future is completed and the thread goes
\* back to waiting on the queue.
Release(w, outcome) ==
  /\ futures' = [futures EXCEPT ![wjob[w]] = outcome]
  /\ wpc' = [wpc EXCEPT ![w] = "idle"]
  /\ wjob' = [wjob EXCEPT ![w] = NoJob]
  /\ wexc' = [wexc EXCEPT ![w] = NoText]
  /\ wlog' = [wlog EXCEPT ![w] = <<>>]
  /\ wproduced' = [wproduced EXCEPT ![w] = NoName]

-----------------------------------------------------------------------------
(* _run_ytdlp: the Runner, one statement group per step *)

Others == <<dvars, pvars, started, submitted, waited, rqvars, fvars, avars, rvars, cvars>>

RunnerMarkRunningSkipped(w) ==
  /\ wpc[w] = "picked"
  /\ wpc' = [wpc EXCEPT ![w] = "body"]
  /\ UNCHANGED <<jobs, held, futures, work_queue, wjob, wexc, wlog, wproduced,
                 fetchRaised, Others>>

\* Lines 368-369: job = _jobs[job_id]; job.status = "running".
RunnerMarkRunning(w) ==
  /\ wpc[w] = "picked"
  /\ jobs' = SetField(wjob[w], "status", "running")
  /\ held' = Record(wjob[w], jobs')
  /\ wpc' = [wpc EXCEPT ![w] = "body"]
  /\ UNCHANGED <<futures, work_queue, wjob, wexc, wlog, wproduced, fetchRaised, Others>>

\* Lines 371-458 raise (import yt_dlp fails, job_dir.mkdir fails, ...): the
\* statement is outside the try of line 460, so the exception leaves
\* _run_ytdlp and the executor stores it in the Future.
RunnerSetupRaises(w) ==
  /\ wpc[w] = "body"
  /\ Release(w, "raised")
  /\ UNCHANGED <<jobs, held, work_queue, fetchRaised, Others>>

\* Lines 371-463 run without raising up to the fetch call, and
\* ydl.extract_info(job.url, download=True) raises `text`
\* after the extractor logged `lines`.
FetchRaises(w, text, lines) ==
  /\ wpc[w] = "body"
  /\ wexc' = [wexc EXCEPT ![w] = text]
  /\ wlog' = [wlog EXCEPT ![w] = lines]
  /\ fetchRaised' = [fetchRaised EXCEPT ![wjob[w]] = text]
  /\ wpc' = [wpc EXCEPT ![w] = "except"]
  /\ UNCHANGED <<jobs, held, futures, work_queue, wjob, wproduced, Others>>

\* Lines 371-474: the extractor returns, but the working directory holds no
\* file (_pick_latest_file raises) or the latest file has 0 bytes.
FetchYieldsNothing(w, text, lines) ==
  /\ wpc[w] = "body"
  /\ text \in {NoFileError, EmptyFileError}
  /\ wexc' = [wexc EXCEPT ![w] = text]
  /\ wlog' = [wlog EXCEPT ![w] = lines]
  /\ wpc' = [wpc EXCEPT ![w] = "except"]
  /\ UNCHANGED <<jobs, held, futures, work_queue, wjob, wproduced, fetchRaised, Others>>

\* Lines 371-488: the extractor returns, the latest file is not empty and is
\* renamed to the sanitized title (NiceName), or keeps its id-based name
\* when there is no metadata or the rename fails (IdName).
FetchReturns(w, name) ==
  /\ wpc[w] = "body"
  /\ wproduced' = [wproduced EXCEPT ![w] = name]
  /\ wpc' = [wpc EXCEPT ![w] = "set_filename"]
  /\ UNCHANGED <<jobs, held, futures, work_queue, wjob, wexc, wlog, fetchRaised, Others>>

\* Line 490: job.filename = produced.name.
RunnerSetFilename(w) ==
  /\ wpc[w] = "set_filename"
  /\ jobs' = SetField(wjob[w], "filename", wproduced[w])
  /\ held' = Record(wjob[w], jobs')
  /\ wpc' = [wpc EXCEPT ![w] = "set_done"]
  /\ UNCHANGED <<futures, work_queue, wjob, wexc, wlog, wproduced, fetchRaised, Others>>

\* Line 491: job.status = "done"; the task returns.
RunnerSetDone(w) ==
  /\ wpc[w] = "set_done"
  /\ jobs' = SetField(wjob[w], "status", "done")
  /\ held' = Record(wjob[w], jobs')
  /\ Release(w, "returned")
  /\ UNCHANGED <<work_queue, fetchRaised, Others>>

\* Lines 493-494: except Exception: job.status = "error".
RunnerSetStatusError(w) ==
  /\ wpc[w] = "except"
  /\ jobs' = SetField(wjob[w], "status", "error")
  /\ held' = Record(wjob[w], jobs')
  /\ wpc' = [wpc EXCEPT ![w] = "set_error"]
  /\ UNCHANGED <<futures, work_queue, wjob, wexc, wlog, wproduced, fetchRaised, Others>>

\* Lines 495-511: job.error = base + hint + log_tail; the task returns.
\* cookiefile is what _maybe_cookiefile() found at line 399.
RunnerSetError(w, cookiefile) ==
  /\ wpc[w] = "set_error"
  /\ jobs' = SetField(wjob[w], "error",
                      ErrorMessage(wexc[w], jobs[wjob[w]].url, cookiefile, wlog[w]))
  /\ held' = Record(wjob[w], jobs')
  /\ Release(w, "returned")
  /\ UNCHANGED <<work_queue, fetchRaised, Others>>

-----------------------------------------------------------------------------
(* job_status: GET /api/jobs/{job_id} *)

PollOthers == <<jobs, held, futures, work_queue, wvars, dvars, started, submitted,
                waited, fetchRaised, rqvars, fvars, avars, rvars, cvars>>

\* A query that looks for the id among the submitted tasks.
PollNotFoundUnsubmitted(j) ==
  /\ ppc = "idle"
  /\ j \notin DOMAIN futures
  /\ resp' = [NoResp EXCEPT !.code = 404, !.id = j]
  /\ UNCHANGED <<ppc, pjob, pread, PollOthers>>

\* Lines 689-691: the id is unknown: 404.
PollNotFound(j) ==
  /\ ppc = "idle"
  /\ j \notin Known
  /\ resp' = [NoResp EXCEPT !.code = 404, !.id = j]
  /\ UNCHANGED <<ppc, pjob, pread, PollOthers>>

\* Lines 689-694: the job is found and job.status is read.
PollReadStatus(j) ==
  /\ ppc = "idle"
  /\ j \in Known
  /\ pjob' = j
  /\ pread' = [NoRead EXCEPT !.status = jobs[j].status]
  /\ resp' = NoResp
  /\ ppc' = "read_filename"
  /\ UNCHANGED PollOthers

\* Line 697: job.filename is read.
PollReadFilename ==
  /\ ppc = "read_filename"
  /\ pread' = [pread EXCEPT !.filename = jobs[pjob].filename]
  /\ ppc' = "read_error"
  /\ UNCHANGED <<pjob, resp, PollOthers>>

\* Lines 698-699: job.error is read and the response is returned.
PollReadError ==
  /\ ppc = "read_error"
  /\ resp' = [code |-> 200, id |-> pjob, status |-> pread.status,
              filename |-> pread.filename, error |-> jobs[pjob].error]
  /\ pread' = NoRead
  /\ pjob' = NoJob
  /\ ppc' = "idle"
  /\ UNCHANGED PollOthers

-----------------------------------------------------------------------------
(* preview: GET /api/preview, and the metadata cache *)

\* The request threads of the server that run preview concurrently.
PreviewThreads == {1, 2}

NoThread == 0

PreviewUrls == {YoutubeUrl, FacebookUrl}

\* Line 531: an entry younger than this many seconds is served from the cache.
PreviewTtl == 180

\* The amounts of seconds by which the clock advances between two steps.
TickSteps == {1, 179}

\* Titles the extractor reports for a URL.
PreviewTitles == {"Title A", "Title B"}

\* Texts the extractor raises in preview; the empty one is an exception
\* without a message.
PreviewFailures == { <<"ERROR:", "Unsupported", "URL">>, <<>> }

\* A Preview (lines 178-190): the key, the metadata and `_ts`.
NewPreview(u, title, t) == [url |-> u, title |-> title, ts |-> t]

\* _preview_cache.get(url) of a key that is absent.
NoPreview == NewPreview(NoReq, NoName, -1)

NoPayload == [code |-> 0, ok |-> FALSE, url |-> NoReq, title |-> NoName, error |-> NoText]

\* Lines 533-545 and 616-629: the payload of a record.
OkPayload(p) ==
  [code |-> 200, ok |-> TRUE, url |-> p.url, title |-> p.title, error |-> NoText]

\* Line 632: the payload of a failure.
FailurePayload(u, exc) ==
  [code |-> 200, ok |-> FALSE, url |-> u, title |-> NoName,
   error |-> IF exc # <<>> THEN exc ELSE ExcClassName]

\* Line 526: HTTPException(status_code=400).
RejectedPayload ==
  [code |-> 400, ok |-> FALSE, url |-> NoReq, title |-> NoName, error |-> NoText]

\* An entry that is still served when it is exactly 180 seconds old.
FreshInclusive(cached, t) == cached # NoPreview /\ (t - cached.ts) <= PreviewTtl

\* Line 531: cached and (now - cached._ts) < 180.
Fresh(cached, t) == cached # NoPreview /\ (t - cached.ts) < PreviewTtl

\* The last write of line 614 for a URL: the record, and the time of the write.
NoStore == [rec |-> NoPreview, at |-> -1]

InitPreview ==
  /\ preview_cache = [u \in PreviewUrls |-> NoPreview]
  /\ preview_lock = NoThread
  /\ now = 0
  /\ ticks = 0
  /\ nprev = 0
  /\ qpc = [t \in PreviewThreads |-> "idle"]
  /\ qreq = [t \in PreviewThreads |-> NoReq]
  /\ qurl = [t \in PreviewThreads |-> NoReq]
  /\ qnow = [t \in PreviewThreads |-> 0]
  /\ qval = [t \in PreviewThreads |-> NoName]
  /\ qresp = [t \in PreviewThreads |-> NoPayload]
  /\ stored = [u \in PreviewUrls |-> NoStore]
  /\ calls = [u \in PreviewUrls |-> 0]

jvars == <<jobs, held, futures, work_queue, wvars, dvars, pvars, started, submitted,
           waited, fetchRaised, rqvars>>

PreviewOthers == <<jvars, fvars, avars, cvars>>

\* The request returns: its locals are gone.
PreviewReturn(t, payload) ==
  /\ qresp' = [qresp EXCEPT ![t] = payload]
  /\ qpc' = [qpc EXCEPT ![t] = "idle"]
  /\ qurl' = [qurl EXCEPT ![t] = NoReq]
  /\ qnow' = [qnow EXCEPT ![t] = 0]
  /\ qval' = [qval EXCEPT ![t] = NoName]

\* Lines 524-528: the URL is stripped and is not empty; the time is read.
\* `limit` caps the number of requests of a run.
PreviewBegin(t, raw, limit) ==
  /\ qpc[t] = "idle"
  /\ Strip(raw) # <<>>
  /\ nprev < limit
  /\ nprev' = nprev + 1
  /\ qreq' = [qreq EXCEPT ![t] = raw]
  /\ qurl' = [qurl EXCEPT ![t] = Strip(raw)]
  /\ qnow' = [qnow EXCEPT ![t] = now]
  /\ qresp' = [qresp EXCEPT ![t] = NoPayload]
  /\ qpc' = [qpc EXCEPT ![t] = "lock"]
  /\ UNCHANGED <<preview_lock, qval, cachevars, clockvars, PreviewOthers>>

\* Lines 524-526: the stripped URL is empty: HTTP 400.
PreviewRejects(t, raw) ==
  /\ qpc[t] = "idle"
  /\ Strip(raw) = <<>>
  /\ qreq' = [qreq EXCEPT ![t] = raw]
  /\ qresp' = [qresp EXCEPT ![t] = RejectedPayload]
  /\ UNCHANGED <<preview_lock, nprev, qpc, qurl, qnow, qval, cachevars, clockvars,
                 PreviewOthers>>

\* Line 529: `with _preview_lock:` is entered.
PreviewAcquire(t) ==
  /\ qpc[t] = "lock"
  /\ preview_lock = NoThread
  /\ preview_lock' = t
  /\ qpc' = [qpc EXCEPT ![t] = "locked"]
  /\ UNCHANGED <<nprev, qreq, qurl, qnow, qval, qresp, cachevars, clockvars,
                 PreviewOthers>>

\* Lines 530-545: the entry is fresh: its payload is returned, the lock is
\* released on the way out.
PreviewHit(t) ==
  /\ qpc[t] = "locked"
  /\ Fresh(preview_cache[qurl[t]], qnow[t])
  /\ preview_lock' = NoThread
  /\ PreviewReturn(t, OkPayload(preview_cache[qurl[t]]))
  /\ UNCHANGED <<nprev, qreq, cachevars, clockvars, PreviewOthers>>

\* A miss that enters the adapter inside the `with` block.
PreviewMissKeepsLock(t) ==
  /\ qpc[t] = "locked"
  /\ ~Fresh(preview_cache[qurl[t]], qnow[t])
  /\ qpc' = [qpc EXCEPT ![t] = "adapter"]
  /\ calls' = [calls EXCEPT ![qurl[t]] = @ + 1]
  /\ UNCHANGED <<preview_lock, nprev, qreq, qurl, qnow, qval, qresp, preview_cache,
                 stored, clockvars, PreviewOthers>>

\* Lines 530-568: no entry, or a stale one: the lock is released, the
\* options are built and extract_info(url, download=False) is called.
PreviewMiss(t) ==
  /\ qpc[t] = "locked"
  /\ ~Fresh(preview_cache[qurl[t]], qnow[t])
  /\ preview_lock' = NoThread
  /\ qpc' = [qpc EXCEPT ![t] = "adapter"]
  /\ calls' = [calls EXCEPT ![qurl[t]] = @ + 1]
  /\ UNCHANGED <<nprev, qreq, qurl, qnow, qval, qresp, preview_cache, stored,
                 clockvars, PreviewOthers>>

\* Lines 568-611: the extractor returns the metadata and the Preview is built.
PreviewFetchReturns(t, title) ==
  /\ qpc[t] = "adapter"
  /\ qval' = [qval EXCEPT ![t] = title]
  /\ qpc' = [qpc EXCEPT ![t] = "store"]
  /\ UNCHANGED <<preview_lock, nprev, qreq, qurl, qnow, qresp, cachevars, clockvars,
                 PreviewOthers>>

\* A failure that is remembered in the cache.
PreviewFetchRaisesCached(t, exc) ==
  /\ qpc[t] = "adapter"
  /\ preview_cache' = [preview_cache EXCEPT ![qurl[t]] = NewPreview(qurl[t], NoName, qnow[t])]
  /\ PreviewReturn(t, FailurePayload(qurl[t], exc))
  /\ UNCHANGED <<preview_lock, nprev, qreq, stored, calls, clockvars, PreviewOthers>>

\* Lines 567-569 and 631-632: the extractor raises; the exception is caught
\* and its text returned.
PreviewFetchRaises(t, exc) ==
  /\ qpc[t] = "adapter"
  /\ PreviewReturn(t, FailurePayload(qurl[t], exc))
  /\ UNCHANGED <<preview_lock, nprev, qreq, cachevars, clockvars, PreviewOthers>>

\* Lines 613-614 with the entry replaced only by one that is not older.
PreviewStoreKeepsNewer(t) ==
  /\ qpc[t] = "store"
  /\ preview_lock = NoThread
  /\ preview_cache' =
       IF qnow[t] >= preview_cache[qurl[t]].ts
       THEN [preview_cache EXCEPT ![qurl[t]] = NewPreview(qurl[t], qval[t], qnow[t])]
       ELSE preview_cache
  /\ stored' = [stored EXCEPT ![qurl[t]] =
                  [rec |-> NewPreview(qurl[t], qval[t], qnow[t]), at |-> now]]
  /\ PreviewReturn(t, OkPayload(NewPreview(qurl[t], qval[t], qnow[t])))
  /\ UNCHANGED <<preview_lock, nprev, qreq, calls, clockvars, PreviewOthers>>

\* Lines 613-629: under the lock the record, stamped with the time read at
\* line 528, replaces the entry of its URL; its payload is returned.
PreviewStore(t) ==
  /\ qpc[t] = "store"
  /\ preview_lock = NoThread
  /\ preview_cache' = [preview_cache EXCEPT ![qurl[t]] = NewPreview(qurl[t], qval[t], qnow[t])]
  /\ stored' = [stored EXCEPT ![qurl[t]] =
                  [rec |-> NewPreview(qurl[t], qval[t], qnow[t]), at |-> now]]
  /\ PreviewReturn(t, OkPayload(NewPreview(qurl[t], qval[t], qnow[t])))
  /\ UNCHANGED <<preview_lock, nprev, qreq, calls, clockvars, PreviewOthers>>

\* time.time() advances.
Tick(d, limit) ==
  /\ ticks < limit
  /\ now' = now + d
  /\ ticks' = ticks + 1
  /\ UNCHANGED <<qvars, cachevars, PreviewOthers>>

-----------------------------------------------------------------------------
(* File names: _fix_mojibake, _sanitize_filename, _dedupe_path *)

\* Line 257: the characters that are invalid in Windows file names.
InvalidChars == {"<", ">", ":", "\"", "/", "\\", "|", "?", "*"}

\* Line 258: ord(c) < 32.
ControlChars == {"\t", "\n", "\r", "\f"}

\* Line 255: max_len.
SanitizeMaxLen == 140

\* Line 277 with range(1, 99).
DedupeRangeEndShort == 100 - 1

\* Line 277: range(1, 100).
DedupeRangeEnd == 100

\* Lines 257-258 for the characters lo..hi of s: invalid and control
\* characters become "_". The range is halved so that long names stay within
\* the evaluator's depth.
RECURSIVE ReplaceInvalidIn(_, _, _)
ReplaceInvalidIn(s, lo, hi) ==
  IF lo > hi THEN ""
  ELSE IF lo = hi
  THEN (IF SubSeq(s, lo, lo) \in InvalidChars \cup ControlChars THEN "_" ELSE SubSeq(s, lo, lo))
  ELSE LET mid == (lo + hi) \div 2
       IN ReplaceInvalidIn(s, lo, mid) \o ReplaceInvalidIn(s, mid + 1, hi)

ReplaceInvalid(s) == ReplaceInvalidIn(s, 1, Len(s))

\* str.lstrip(cs), str.rstrip(cs) and str.strip(cs).
LStripChars(s, cs) ==
  LET kept == { i \in 1..Len(s) : SubSeq(s, i, i) \notin cs }
  IN IF kept = {} THEN ""
     ELSE SubSeq(s, CHOOSE i \in kept : \A k \in kept : i <= k, Len(s))

RStripChars(s, cs) ==
  LET kept == { i \in 1..Len(s) : SubSeq(s, i, i) \notin cs }
  IN IF kept = {} THEN ""
     ELSE SubSeq(s, 1, CHOOSE i \in kept : \A k \in kept : i >= k)

StripChars(s, cs) == RStripChars(LStripChars(s, cs), cs)

\* A run of spaces becomes its last space, for the characters lo..hi of s.
RECURSIVE SqueezeSpacesIn(_, _, _)
SqueezeSpacesIn(s, lo, hi) ==
  IF lo > hi THEN ""
  ELSE IF lo = hi
  THEN (IF SubSeq(s, lo, lo) = " " /\ lo < Len(s) /\ SubSeq(s, lo + 1, lo + 1) = " "
        THEN "" ELSE SubSeq(s, lo, lo))
  ELSE LET mid == (lo + hi) \div 2
       IN SqueezeSpacesIn(s, lo, mid) \o SqueezeSpacesIn(s, mid + 1, hi)

SqueezeSpaces(s) == SqueezeSpacesIn(s, 1, Len(s))

\* Line 259: " ".join(cleaned.split()).
JoinSplit(s) == SqueezeSpaces(StripChars(s, {" "}))

\* Lines 255-267, with the cut of line 266 not followed by rstrip(" .").
SanitizeFilenameCutOnly(name, max_len) ==
  LET cleaned == StripChars(JoinSplit(ReplaceInvalid(name)), {" ", "."})
      named == IF cleaned = "" THEN "download" ELSE cleaned
  IN IF Len(named) > max_len THEN SubSeq(named, 1, max_len) ELSE named

\* Lines 255-267.
SanitizeFilename(name, max_len) ==
  LET cleaned == StripChars(JoinSplit(ReplaceInvalid(name)), {" ", "."})
      named == IF cleaned = "" THEN "download" ELSE cleaned
  IN IF Len(named) > max_len
     THEN RStripChars(SubSeq(named, 1, max_len), {" ", "."})
     ELSE named

\* Lines 220-228: a text that is None, empty or without one of the markers of
\* a wrong decoding is returned as it is; the texts used here are ASCII and
\* hold no marker.
FixMojibake(text) == text

RECURSIVE LastDot(_)
LastDot(s) ==
  IF s = "" THEN 0
  ELSE IF SubSeq(s, Len(s), Len(s)) = "." THEN Len(s)
  ELSE LastDot(SubSeq(s, 1, Len(s) - 1))

\* Path.suffix and Path.stem (lines 273-274 and 479).
Suffix(name) ==
  IF 1 < LastDot(name) /\ LastDot(name) < Len(name)
  THEN SubSeq(name, LastDot(name), Len(name))
  ELSE ""

Stem(name) ==
  IF 1 < LastDot(name) /\ LastDot(name) < Len(name)
  THEN SubSeq(name, 1, LastDot(name) - 1)
  ELSE name

\* Line 278: f"{stem} ({i}){suffix}".
Candidate(name, i) == Stem(name) \o " (" \o ToString(i) \o ")" \o Suffix(name)

\* Lines 270-280 with line 279 returning the first candidate that exists.
DedupePathTakesExisting(names, name) ==
  IF name \notin names THEN name
  ELSE LET taken == { i \in 1..(DedupeRangeEnd - 1) : Candidate(name, i) \in names }
       IN IF taken = {} THEN name
          ELSE Candidate(name, CHOOSE i \in taken : \A k \in taken : i <= k)

\* Lines 270-280: `names` are the names that exist in the directory.
DedupePath(names, name) ==
  IF name \notin names THEN name
  ELSE LET free == { i \in 1..(DedupeRangeEnd - 1) : Candidate(name, i) \notin names }
       IN IF free = {} THEN name
          ELSE Candidate(name, CHOOSE i \in free : \A k \in free : i <= k)

-----------------------------------------------------------------------------
(* The working directory of a job, and lines 462-488 of the Runner *)

File(name, size, mtime) == [name |-> name, size |-> size, mtime |-> mtime]

\* The result of extract_info: not a dict, or a dict with a title and an id
\* (each possibly absent).
NotADict == [isdict |-> FALSE, title |-> NoName, id |-> NoName]

TitledInfo == [isdict |-> TRUE, title |-> "title", id |-> "id"]

MessyInfo == [isdict |-> TRUE, title |-> " a/b:  c. ", id |-> "id"]

BareInfo == [isdict |-> TRUE, title |-> NoName, id |-> NoName]

NoInfo == [isdict |-> FALSE, title |-> "-", id |-> "-"]

\* What a call of extract_info that returns has left in the working
\* directory, with the info it returns: nothing; an empty file; the artifact;
\* the artifact and an older file that already has the nicer name; the
\* artifact and a newer empty file.
Writes ==
  { << {}, TitledInfo >>,
    << {File(IdName, 0, 1)}, TitledInfo >>,
    << {File(IdName, 5, 1)}, TitledInfo >>,
    << {File(IdName, 5, 1)}, NotADict >>,
    << {File(IdName, 5, 1)}, BareInfo >>,
    << {File(IdName, 5, 1)}, MessyInfo >>,
    << {File(IdName, 5, 2), File(NiceName, 3, 1)}, TitledInfo >>,
    << {File(IdName, 5, 1), File("id.jpg", 0, 2)}, TitledInfo >> }

\* What Path.exists() raises for a name the file system refuses.
FileNameTooLong == <<"[Errno 36]", "File name too long">>

\* job_dir.glob("*"), as a set of File.
Dir(j) == { File(f.name, f.size, f.mtime) : f \in { g \in fs : g.job = j } }

InDir(j, f) == [job |-> j, name |-> f.name, size |-> f.size, mtime |-> f.mtime]

Names(files) == { f.name : f \in files }

\* Lines 283-287, for a folder that holds files.
PickLatestFile(files) == CHOOSE f \in files : \A g \in files : g.mtime <= f.mtime

\* A check that lets a file of size zero pass.
IsEmptyFileStrict(f) == f.size < 0

\* Line 473: produced.stat().st_size <= 0.
IsEmptyFile(f) == f.size <= 0

\* Lines 477-481.
DesiredName(info, produced, j) ==
  LET title == IF FixMojibake(info.title) \in {NoName, ""} THEN "download"
               ELSE FixMojibake(info.title)
      vid == IF info.id \in {NoName, ""} THEN JobIdText(j) ELSE info.id
  IN SanitizeFilename(title \o " [" \o vid \o "]", SanitizeMaxLen) \o Suffix(produced.name)

\* Line 482.
Target(info, files, j) ==
  DedupePath(Names(files), DesiredName(info, PickLatestFile(files), j))

InitFiles ==
  /\ fs = {}
  /\ fetched = {}
  /\ finfail = {}
  /\ winfo = [w \in Workers |-> NoInfo]
  /\ apc = "idle"
  /\ ajob = NoJob
  /\ aresp = [code |-> 0, id |-> NoJob, detail |-> "-", filename |-> NoName]

FileOthers == <<dvars, pvars, started, submitted, waited, rqvars, avars, rvars, cvars>>

\* Lines 371-470: the setup succeeds (the working directory is created
\* empty), extract_info(job.url, download=True) returns `info` and has written
\* `files`.
ExtractReturns(w, files, info) ==
  /\ wpc[w] = "body"
  /\ fs' = fs \cup { InDir(wjob[w], f) : f \in files }
  /\ fetched' = fetched \cup { [job |-> wjob[w], files |-> files] }
  /\ winfo' = [winfo EXCEPT ![w] = info]
  /\ wpc' = [wpc EXCEPT ![w] = "pick"]
  /\ UNCHANGED <<jobs, held, futures, work_queue, wjob, wexc, wlog, wproduced,
                 fetchRaised, finfail, FileOthers>>

\* Lines 472 and 283-287: the folder holds no file.
PickFindsNothing(w) ==
  /\ wpc[w] = "pick"
  /\ Dir(wjob[w]) = {}
  /\ wexc' = [wexc EXCEPT ![w] = NoFileError]
  /\ wlog' = [wlog EXCEPT ![w] = <<>>]
  /\ winfo' = [winfo EXCEPT ![w] = NoInfo]
  /\ wpc' = [wpc EXCEPT ![w] = "except"]
  /\ UNCHANGED <<jobs, held, futures, work_queue, wjob, wproduced, fetchRaised, fs,
                 fetched, finfail, FileOthers>>

\* Lines 472-474: the latest file is empty.
PickFindsEmpty(w) ==
  /\ wpc[w] = "pick"
  /\ Dir(wjob[w]) # {}
  /\ IsEmptyFile(PickLatestFile(Dir(wjob[w])))
  /\ wexc' = [wexc EXCEPT ![w] = EmptyFileError]
  /\ wlog' = [wlog EXCEPT ![w] = <<>>]
  /\ winfo' = [winfo EXCEPT ![w] = NoInfo]
  /\ wpc' = [wpc EXCEPT ![w] = "except"]
  /\ UNCHANGED <<jobs, held, futures, work_queue, wjob, wproduced, fetchRaised, fs,
                 fetched, finfail, FileOthers>>

\* Lines 472-477: the latest file is not empty and info is not a dict: the
\* file keeps its name.
FinalizeSkipped(w) ==
  /\ wpc[w] = "pick"
  /\ Dir(wjob[w]) # {}
  /\ ~IsEmptyFile(PickLatestFile(Dir(wjob[w])))
  /\ ~winfo[w].isdict
  /\ wproduced' = [wproduced EXCEPT ![w] = PickLatestFile(Dir(wjob[w])).name]
  /\ winfo' = [winfo EXCEPT ![w] = NoInfo]
  /\ wpc' = [wpc EXCEPT ![w] = "set_filename"]
  /\ UNCHANGED <<jobs, held, futures, work_queue, wjob, wexc, wlog, fetchRaised, fs,
                 fetched, finfail, FileOthers>>

\* Lines 477-482: the latest file is not empty, info is a dict, and a call
\* made while the target is computed raises (Path.exists() in _dedupe_path
\* raises the OSError of os.stat): these lines are inside the outer try only.
FinalizePrepareRaises(w, text) ==
  /\ wpc[w] = "pick"
  /\ Dir(wjob[w]) # {}
  /\ ~IsEmptyFile(PickLatestFile(Dir(wjob[w])))
  /\ winfo[w].isdict
  /\ wexc' = [wexc EXCEPT ![w] = text]
  /\ wlog' = [wlog EXCEPT ![w] = <<>>]
  /\ finfail' = finfail \cup { [job |-> wjob[w], step |-> "prepare"] }
  /\ winfo' = [winfo EXCEPT ![w] = NoInfo]
  /\ wpc' = [wpc EXCEPT ![w] = "except"]
  /\ UNCHANGED <<jobs, held, futures, work_queue, wjob, wproduced, fetchRaised, fs,
                 fetched, FileOthers>>

\* Lines 472-488: the latest file is not empty, info is a dict, and the file
\* is renamed to the target (a file that has the target's name is replaced).
FinalizeRenames(w) ==
  /\ wpc[w] = "pick"
  /\ Dir(wjob[w]) # {}
  /\ ~IsEmptyFile(PickLatestFile(Dir(wjob[w])))
  /\ winfo[w].isdict
  /\ LET produced == PickLatestFile(Dir(wjob[w]))
         target == Target(winfo[w], Dir(wjob[w]), wjob[w])
     IN /\ fs' = { f \in fs : ~(f.job = wjob[w] /\ f.name \in {produced.name, target}) }
                   \cup { InDir(wjob[w], File(target, produced.size, produced.mtime)) }
        /\ wproduced' = [wproduced EXCEPT ![w] = target]
  /\ winfo' = [winfo EXCEPT ![w] = NoInfo]
  /\ wpc' = [wpc EXCEPT ![w] = "set_filename"]
  /\ UNCHANGED <<jobs, held, futures, work_queue, wjob, wexc, wlog, fetchRaised,
                 fetched, finfail, FileOthers>>

\* A failed rename after which the Runner reports the target's name.
FinalizeRenameRaisesTakesTarget(w) ==
  /\ wpc[w] = "pick"
  /\ Dir(wjob[w]) # {}
  /\ ~IsEmptyFile(PickLatestFile(Dir(wjob[w])))
  /\ winfo[w].isdict
  /\ wproduced' = [wproduced EXCEPT ![w] = Target(winfo[w], Dir(wjob[w]), wjob[w])]
  /\ finfail' = finfail \cup { [job |-> wjob[w], step |-> "rename"] }
  /\ winfo' = [winfo EXCEPT ![w] = NoInfo]
  /\ wpc' = [wpc EXCEPT ![w] = "set_filename"]
  /\ UNCHANGED <<jobs, held, futures, work_queue, wjob, wexc, wlog, fetchRaised, fs,
                 fetched, FileOthers>>

\* Lines 472-488: as above, but produced.rename(target) raises: the inner
\* except passes and the file keeps its name.
FinalizeRenameRaises(w) ==
  /\ wpc[w] = "pick"
  /\ Dir(wjob[w]) # {}
  /\ ~IsEmptyFile(PickLatestFile(Dir(wjob[w])))
  /\ winfo[w].isdict
  /\ wproduced' = [wproduced EXCEPT ![w] = PickLatestFile(Dir(wjob[w])).name]
  /\ finfail' = finfail \cup { [job |-> wjob[w], step |-> "rename"] }
  /\ winfo' = [winfo EXCEPT ![w] = NoInfo]
  /\ wpc' = [wpc EXCEPT ![w] = "set_filename"]
  /\ UNCHANGED <<jobs, held, futures, work_queue, wjob, wexc, wlog, fetchRaised, fs,
                 fetched, FileOthers>>

-----------------------------------------------------------------------------
(* download_file: GET /files/{job_id} *)

ArtifactOthers == <<jvars, fvars, rvars, cvars>>

Answer(code, j, detail, name) ==
  [code |-> code, id |-> j, detail |-> detail, filename |-> name]

\* Lines 704-706: _jobs.get(job_id) finds nothing: HTTP 404.
RetrieveNotFound(j) ==
  /\ apc = "idle"
  /\ j \notin Known
  /\ aresp' = Answer(404, j, "Job inexistent", NoName)
  /\ UNCHANGED <<apc, ajob, ArtifactOthers>>

\* A retrieval that does not look at the status.
RetrieveReadStatusUnchecked(j) ==
  /\ apc = "idle"
  /\ j \in Known
  /\ apc' = "afile"
  /\ ajob' = j
  /\ UNCHANGED <<aresp, ArtifactOthers>>

\* Lines 704-707: the job is found and job.status is read: HTTP 409 unless
\* it is done.
RetrieveReadStatus(j) ==
  /\ apc = "idle"
  /\ j \in Known
  /\ IF jobs[j].status # "done"
     THEN /\ aresp' = Answer(409, j, "Fisierul nu este gata", NoName)
          /\ UNCHANGED <<apc, ajob>>
     ELSE /\ apc' = "afile"
          /\ ajob' = j
          /\ UNCHANGED aresp
  /\ UNCHANGED ArtifactOthers

\* Lines 707-718: job.filename is read: HTTP 409 if it is not set, HTTP 404 if
\* the working directory has no file of that name, else the file is served.
RetrieveResolve ==
  /\ apc = "afile"
  /\ aresp' =
       IF jobs[ajob].filename = NoName
       THEN Answer(409, ajob, "Fisierul nu este gata", NoName)
       ELSE IF jobs[ajob].filename \notin Names(Dir(ajob))
       THEN Answer(404, ajob, "Fisierul nu a fost gasit", jobs[ajob].filename)
       ELSE Answer(200, ajob, "file", jobs[ajob].filename)
  /\ apc' = "idle"
  /\ ajob' = NoJob
  /\ UNCHANGED ArtifactOthers

-----------------------------------------------------------------------------
(* The classification of a failure, as a function of its inputs *)

\* The words error texts are made of.
Words == {"Video", "unavailable", "Unavailable", "0", "bytes",
          "Downloaded file is empty", "Unsupported", "URL", "boom"}

MaxTextLen == 2

Texts(n) == UNION { [1..k -> Words] : k \in 0..n }

NoInput == [exc |-> NoText, url |-> NoReq, cookiefile |-> FALSE, lines |-> <<>>]

InitClassify ==
  /\ cin = NoInput
  /\ cout = NoText

ClassifyOthers == <<jvars, fvars, avars, rvars, fnvars>>

\* Lines 493-511 are entered with an exception, a job and a log.
ClassifyInput(exc, url, cookiefile, lines) ==
  /\ cin = NoInput
  /\ cin' = [exc |-> exc, url |-> url, cookiefile |-> cookiefile, lines |-> lines]
  /\ UNCHANGED <<cout, ClassifyOthers>>

\* Lines 495-511.
Classify ==
  /\ cin # NoInput
  /\ cout = NoText
  /\ cout' = ErrorMessage(cin.exc, cin.url, cin.cookiefile, cin.lines)
  /\ UNCHANGED <<cin, ClassifyOthers>>

-----------------------------------------------------------------------------

-----------------------------------------------------------------------------
(* _sanitize_filename, as a function of its argument *)

\* The characters the arguments are made of: a letter, a space, a dot, an
\* invalid character and a control character.
NameChars == {"a", " ", ".", "/", "\t"}

MaxNameLen == 3

RECURSIVE NamesUpTo(_)
NamesUpTo(n) ==
  IF n = 0 THEN {""} ELSE NamesUpTo(n - 1) \cup { c \o s : c \in NameChars, s \in NamesUpTo(n - 1) }

RECURSIVE Repeat(_, _)
Repeat(c, n) ==
  IF n = 0 THEN ""
  ELSE IF n = 1 THEN c
  ELSE Repeat(c, n \div 2) \o Repeat(c, n - n \div 2)

\* The arguments: every name of up to n characters, and such a name after a
\* run of letters that ends around max_len.
SanitizeArguments(n) ==
  NamesUpTo(n) \cup { Repeat("a", k) \o s : k \in (SanitizeMaxLen - 3)..(SanitizeMaxLen + 1),
                                          s \in NamesUpTo(2) }

InitSanitize ==
  /\ sname = NoName
  /\ sclean = NoName

SanitizeOthers == <<jvars, fvars, avars, rvars, cin, cout, pathvars, optvars, logvars>>

\* _sanitize_filename is called with `name`.
SanitizeInput(name) ==
  /\ sname = NoName
  /\ sname' = name
  /\ UNCHANGED <<sclean, SanitizeOthers>>

\* Lines 255-267, max_len having its default.
Sanitize ==
  /\ sname # NoName
  /\ sclean = NoName
  /\ sclean' = SanitizeFilename(sname, SanitizeMaxLen)
  /\ UNCHANGED <<sname, SanitizeOthers>>

-----------------------------------------------------------------------------
(* _dedupe_path, as a function of the desired path and of the directory *)

\* The desired names: with a suffix and without one.
DesiredNames == {"a.mp4", "b"}

\* The largest index of a numbered sibling that exists in a directory.
MaxSibling == 100

\* Sets of indices of the numbered siblings that exist: the first k ones, one
\* missing among the first 99, and a few of the first three.
SiblingSets ==
  { 1..k : k \in 0..MaxSibling }
    \cup { (1..(DedupeRangeEnd - 1)) \ {i} : i \in {1, 50, DedupeRangeEnd - 1} }
    \cup { {2}, {3}, {1, 3}, {2, 3} }

\* The directories: the desired name exists or not, with the siblings of `name`.
Directory(name, present, siblings) ==
  (IF present THEN {name} ELSE {}) \cup { Candidate(name, i) : i \in siblings }

InitDedupe ==
  /\ pathfs = {}
  /\ pathwant = NoName
  /\ pathgot = <<>>

DedupeOthers == <<jvars, fvars, avars, rvars, cin, cout, svars, optvars, logvars>>

\* A directory holding `names`, and a desired name.
DedupeInput(names, name) ==
  /\ pathwant = NoName
  /\ pathwant' = name
  /\ pathfs' = names
  /\ UNCHANGED <<pathgot, DedupeOthers>>

\* Lines 270-280: _dedupe_path(path) returns; it is called for the first
\* time, or again once a file exists at the path it returned.
DedupeCall ==
  /\ pathwant # NoName
  /\ Len(pathgot) < 2
  /\ pathgot # <<>> => pathgot[Len(pathgot)] \in pathfs
  /\ pathgot' = Append(pathgot, DedupePath(pathfs, pathwant))
  /\ UNCHANGED <<pathfs, pathwant, DedupeOthers>>

\* Line 484 (produced.rename(target)): a file comes to exist at the returned
\* path.
DedupeCreate ==
  /\ Len(pathgot) = 1
  /\ pathgot[1] \notin pathfs
  /\ pathfs' = pathfs \cup {pathgot[1]}
  /\ UNCHANGED <<pathwant, pathgot, DedupeOthers>>

-----------------------------------------------------------------------------
(* The options of the fetch, as a function of the job and of the installation *)

\* Lines 321-331: _maybe_cookiefile() returns None or the path of the file.
CookieFiles == {NoName, "/app/cookies.txt"}

\* Lines 339-364: _ffmpeg_dir() returns None or a directory.
FfmpegDirs == {NoName, "/app/ffmpeg/bin", "/usr/bin"}

\* Line 395: job_dir = DOWNLOADS_DIR / job_id.
JobDir(id) == "downloads/" \o id

\* Lines 406-429.
CommonOpts(job, cookiefile, ffmpeg_dir) ==
  [outtmpl |-> JobDir(job.id) \o "/%(id)s.%(ext)s",
   noplaylist |-> TRUE,
   quiet |-> TRUE,
   no_warnings |-> TRUE,
   retries |-> 5,
   fragment_retries |-> 5,
   extractor_retries |-> 3,
   socket_timeout |-> 20,
   logger |-> "logger",
   http_headers |-> "DEFAULT_HTTP_HEADERS",
   user_agent |-> "DEFAULT_HTTP_HEADERS[User-Agent]",
   windowsfilenames |-> TRUE]
    @@ (IF cookiefile # NoName THEN [cookiefile |-> cookiefile] ELSE <<>>)
    @@ (IF ffmpeg_dir # NoName THEN [ffmpeg_location |-> ffmpeg_dir] ELSE [fixup |-> "never"])

\* Lines 440-446.
ExtractAudio ==
  <<[key |-> "FFmpegExtractAudio", preferredcodec |-> "mp3", preferredquality |-> "192"]>>

\* Lines 434-458 with line 437 testing job.audio_format only.
YdlOptsMp3Always(job, cookiefile, ffmpeg_dir) ==
  LET common_opts == CommonOpts(job, cookiefile, ffmpeg_dir)
  IN IF job.download_type = "audio"
     THEN IF job.audio_format = "mp3"
          THEN [format |-> "bestaudio/best", postprocessors |-> ExtractAudio] @@ common_opts
          ELSE [format |-> "bestaudio/best"] @@ common_opts
     ELSE IF ffmpeg_dir # NoName
          THEN [format |-> "bv*+ba/best", merge_output_format |-> "mp4"] @@ common_opts
          ELSE [format |-> "best[ext=mp4]/best"] @@ common_opts

\* Lines 434-458: ydl_opts.
YdlOpts(job, cookiefile, ffmpeg_dir) ==
  LET common_opts == CommonOpts(job, cookiefile, ffmpeg_dir)
  IN IF job.download_type = "audio"
     THEN IF job.audio_format = "mp3" /\ ffmpeg_dir # NoName
          THEN [format |-> "bestaudio/best", postprocessors |-> ExtractAudio] @@ common_opts
          ELSE [format |-> "bestaudio/best"] @@ common_opts
     ELSE IF ffmpeg_dir # NoName
          THEN [format |-> "bv*+ba/best", merge_output_format |-> "mp4"] @@ common_opts
          ELSE [format |-> "best[ext=mp4]/best"] @@ common_opts

MaxOptionCalls == 2

\* The jobs the options are built for: the first and the second one created.
OptionJobs == {1, 2}

InitOptions ==
  /\ optin = <<>>
  /\ optout = <<>>

OptionOthers == <<jvars, fvars, avars, rvars, cin, cout, svars, pathvars, logvars>>

\* Lines 367-458 of the Runner of `job`, _maybe_cookiefile() and _ffmpeg_dir()
\* returning `cookiefile` and `ffmpeg_dir`.
BuildOptions(job, cookiefile, ffmpeg_dir) ==
  /\ Len(optout) < MaxOptionCalls
  /\ optin' = Append(optin, [job |-> job, cookiefile |-> cookiefile, ffmpeg_dir |-> ffmpeg_dir])
  /\ optout' = Append(optout, YdlOpts(job, cookiefile, ffmpeg_dir))
  /\ UNCHANGED OptionOthers

-----------------------------------------------------------------------------
(* _JobLogger and the log section of the error message *)

\* Line 380: the largest number of lines the logger keeps.
LogCap == 200

\* What str.strip() removes.
Whitespace == {" ", "\t", "\n", "\r", "\f"}

\* Line 378: the line made of a level and a message.
LogText(level, msg) == StripChars("[" \o level \o "] " \o msg, Whitespace)

\* Lines 377-381 with line 381 keeping the first 200 lines.
LoggerAddKeepsOldest(lines, level, msg) ==
  LET appended == Append(lines, LogText(level, msg))
  IN IF Len(appended) > LogCap THEN SubSeq(appended, 1, LogCap) ELSE appended

\* Lines 377-381: _add(level, msg), as the new value of self.lines.
LoggerAdd(lines, level, msg) ==
  LET appended == Append(lines, LogText(level, msg))
  IN IF Len(appended) > LogCap
     THEN SubSeq(appended, Len(appended) - LogCap + 1, Len(appended))
     ELSE appended

MaxLogCalls == 303

\* The n-th call of the logger has the message Message(n): a numbered line,
\* every second one with whitespace at its end, every seventh one empty.
Message(n) ==
  IF n % 7 = 0 THEN ""
  ELSE "line " \o ToString(n) \o (IF n % 2 = 0 THEN " \n" ELSE "")

\* The n-th call is a call of Method(n).
Method(n) == IF n % 3 = 1 THEN "warning" ELSE IF n % 3 = 2 THEN "debug" ELSE "error"

\* What the fetch raises once the lines are logged.
LogFailures == {VideoUnavailable, <<>>, <<"boom">>}

InitLog ==
  /\ loglines = <<>>
  /\ logall = <<>>
  /\ logcalls = 0
  /\ logverbose = NoName
  /\ logmsg = NoText

LogOthers == <<jvars, fvars, avars, rvars, cin, cout, svars, pathvars, optvars>>

\* The process is started with AVE_YTDLP_VERBOSE set to `value`.
LogSetEnv(value) ==
  /\ logcalls = 0
  /\ logverbose = NoName
  /\ logmsg = NoText
  /\ logverbose' = value
  /\ UNCHANGED <<loglines, logall, logcalls, logmsg, LogOthers>>

\* Lines 383-385: debug(msg) adds the line when AVE_YTDLP_VERBOSE is set and
\* not empty.
LoggerDebug(msg, limit) ==
  /\ logmsg = NoText
  /\ logcalls < limit
  /\ Method(logcalls + 1) = "debug"
  /\ logcalls' = logcalls + 1
  /\ IF logverbose \notin {NoName, ""}
     THEN /\ loglines' = LoggerAdd(loglines, "debug", msg)
          /\ logall' = Append(logall, LogText("debug", msg))
     ELSE UNCHANGED <<loglines, logall>>
  /\ UNCHANGED <<logverbose, logmsg, LogOthers>>

\* Lines 387-388: warning(msg).
LoggerWarning(msg, limit) ==
  /\ logmsg = NoText
  /\ logcalls < limit
  /\ Method(logcalls + 1) = "warning"
  /\ logcalls' = logcalls + 1
  /\ loglines' = LoggerAdd(loglines, "warning", msg)
  /\ logall' = Append(logall, LogText("warning", msg))
  /\ UNCHANGED <<logverbose, logmsg, LogOthers>>

\* Lines 390-391: error(msg).
LoggerError(msg, limit) ==
  /\ logmsg = NoText
  /\ logcalls < limit
  /\ Method(logcalls + 1) = "error"
  /\ logcalls' = logcalls + 1
  /\ loglines' = LoggerAdd(loglines, "error", msg)
  /\ logall' = Append(logall, LogText("error", msg))
  /\ UNCHANGED <<logverbose, logmsg, LogOthers>>

\* Lines 493-511: the fetch raises `exc` and the message is built from the
\* lines logged so far.
LogBuildMessage(exc) ==
  /\ logmsg = NoText
  /\ logmsg' = ErrorMessage(exc, YoutubeUrl, FALSE, loglines)
  /\ UNCHANGED <<loglines, logall, logcalls, logverbose, LogOthers>>

\* The steps of one worker thread; the outcomes of the fetch are drawn from
\* `failures` (texts raised, with the lines logged), `nothings` (failures of
\* the artifact check) and `names` (file names).
WorkerStep(w, failures, nothings, names) ==
  \/ Pickup(w)
  \/ RunnerMarkRunning(w)
  \/ RunnerSetupRaises(w)
  \/ \E f \in failures : FetchRaises(w, f[1], f[2])
  \/ \E text \in nothings : FetchYieldsNothing(w, text, <<>>)
  \/ \E name \in names : FetchReturns(w, name)
  \/ RunnerSetFilename(w)
  \/ RunnerSetDone(w)
  \/ RunnerSetStatusError(w)
  \/ \E cookiefile \in BOOLEAN : RunnerSetError(w, cookiefile)

Download(limit) ==
  \/ \E u \in Urls : StartDownloadStore(u, DefaultForm, limit)
  \/ StartDownloadSubmit

Poll ==
  \/ \E j \in 1..MaxJobs : PollNotFound(j)
  \/ \E j \in 1..MaxJobs : PollReadStatus(j)
  \/ PollReadFilename
  \/ PollReadError

\* Requests, Runners and a status poller, all interleaved.
Next ==
  \/ Download(MaxJobs)
  \/ \E w \in Workers : WorkerStep(w, FetchFailures, {NoFileError, EmptyFileError},
                                 ProducedNames)
  \/ Poll

Init ==
  InitJobs /\ InitFiles /\ InitPreview /\ InitClassify /\ InitSanitize /\ InitDedupe
    /\ InitOptions /\ InitLog

Spec == Init /\ [][Next]_vars

\* The pool under load: more requests than workers, no poller, one text per
\* kind of failure.
PoolWorker(w) ==
  WorkerStep(w, {<<VideoUnavailable, <<>>>>}, {NoFileError}, {IdName})

PoolNext ==
  \/ Download(MaxPoolJobs)
  \/ \E w \in Workers : PoolWorker(w)

PoolSpec == Init /\ [][PoolNext]_vars

\* Threads are scheduled fairly and every step of a task ends, the fetch
\* included: a worker that can take a step eventually takes one.
FairNext ==
  \/ Download(MaxFairJobs)
  \/ \E w \in Workers : PoolWorker(w)

FairPoolSpec == Init /\ [][FairNext]_vars /\ \A w \in Workers : WF_vars(PoolWorker(w))

\* The steps of a preview request after its URL was accepted.
PreviewStep(t) ==
  \/ PreviewAcquire(t)
  \/ PreviewHit(t)
  \/ PreviewMiss(t)
  \/ \E title \in PreviewTitles : PreviewFetchReturns(t, title)
  \/ \E exc \in PreviewFailures : PreviewFetchRaises(t, exc)
  \/ PreviewStore(t)

\* The url parameters of requests: a URL, a URL with spaces around it, and
\* parameters that are empty once stripped.
RawUrls == { YoutubeUrl, <<" ">> \o YoutubeUrl \o <<" ">>, <<>>, <<" ">>, <<" ", " ">> }

MaxRequests == 2

\* The two request handlers that take a URL, with valid and blank URLs.
RequestNext ==
  \/ \E raw \in RawUrls : StartDownloadStore(raw, DefaultForm, MaxRequests)
  \/ \E raw \in RawUrls : StartDownloadRejects(raw)
  \/ StartDownloadSubmit
  \/ \E t \in PreviewThreads, raw \in RawUrls : PreviewBegin(t, raw, MaxRequests)
  \/ \E t \in PreviewThreads, raw \in RawUrls : PreviewRejects(t, raw)
  \/ \E t \in PreviewThreads : PreviewStep(t)

RequestSpec == Init /\ [][RequestNext]_vars

MaxPreviews == 2

MaxTicks == 2

\* Concurrent previews of two URLs while the clock advances.
PreviewNext ==
  \/ \E t \in PreviewThreads, u \in PreviewUrls : PreviewBegin(t, u, MaxPreviews)
  \/ \E t \in PreviewThreads : PreviewStep(t)
  \/ \E d \in TickSteps : Tick(d, MaxTicks)

PreviewSpec == Init /\ [][PreviewNext]_vars

MaxArtifactJobs == 1

\* The Runner with the files of its working directory.
ArtifactWorker(w) ==
  \/ Pickup(w)
  \/ RunnerMarkRunning(w)
  \/ FetchRaises(w, VideoUnavailable, <<>>)
  \/ \E wr \in Writes : ExtractReturns(w, wr[1], wr[2])
  \/ PickFindsNothing(w)
  \/ PickFindsEmpty(w)
  \/ FinalizeSkipped(w)
  \/ FinalizePrepareRaises(w, FileNameTooLong)
  \/ FinalizeRenames(w)
  \/ FinalizeRenameRaises(w)
  \/ RunnerSetFilename(w)
  \/ RunnerSetDone(w)
  \/ RunnerSetStatusError(w)
  \/ \E cookiefile \in BOOLEAN : RunnerSetError(w, cookiefile)

Retrieve ==
  \/ \E j \in 1..MaxArtifactJobs : RetrieveNotFound(j)
  \/ \E j \in 1..MaxArtifactJobs : RetrieveReadStatus(j)
  \/ RetrieveResolve

\* Requests, Runners and a client that asks for the artifact.
ArtifactNext ==
  \/ Download(MaxArtifactJobs)
  \/ \E w \in Workers : ArtifactWorker(w)
  \/ Retrieve

ArtifactSpec == Init /\ [][ArtifactNext]_vars

\* The classification applied to every text of up to MaxTextLen words.
ClassifyNext ==
  \/ \E exc \in Texts(MaxTextLen), url \in {YoutubeUrl, FacebookUrl},
        cookiefile \in BOOLEAN, lines \in {<<>>, <<"[debug] x">>} :
       ClassifyInput(exc, url, cookiefile, lines)
  \/ Classify

ClassifySpec == Init /\ [][ClassifyNext]_vars

\* _sanitize_filename applied to every argument.
SanitizeNext ==
  \/ \E name \in SanitizeArguments(MaxNameLen) : SanitizeInput(name)
  \/ Sanitize

SanitizeSpec == Init /\ [][SanitizeNext]_vars

\* _dedupe_path called twice for a desired name in every directory.
DedupeNext ==
  \/ \E name \in DesiredNames, present \in BOOLEAN, siblings \in SiblingSets :
       DedupeInput(Directory(name, present, siblings), name)
  \/ DedupeCall
  \/ DedupeCreate

DedupeSpec == Init /\ [][DedupeNext]_vars

\* The options built for the jobs of every form, with and without a cookie
\* file and ffmpeg.
OptionNext ==
  \E j \in OptionJobs, form \in Forms, cookiefile \in CookieFiles, ffmpeg_dir \in FfmpegDirs :
    BuildOptions(NewJob(JobIdText(j), YoutubeUrl, form[1], form[2]), cookiefile, ffmpeg_dir)

OptionSpec == Init /\ [][OptionNext]_vars

\* One logger receiving up to MaxLogCalls calls, then the message.
LogNext ==
  \/ \E value \in {"", "1"} : LogSetEnv(value)
  \/ LoggerDebug(Message(logcalls + 1), MaxLogCalls)
  \/ LoggerWarning(Message(logcalls + 1), MaxLogCalls)
  \/ LoggerError(Message(logcalls + 1), MaxLogCalls)
  \/ \E exc \in LogFailures : LogBuildMessage(exc)

LogSpec == Init /\ [][LogNext]_vars

MaxFrameJobs == 2

\* The forms submitted: a video with the default audio_format, and the audio
\* as it is.
FrameForms == {DefaultForm, <<"audio", "original">>}

\* No job_status, download_file or preview request has been made yet.
NoRequestYet ==
  /\ ppc = "idle" /\ resp = NoResp
  /\ apc = "idle" /\ aresp.code = 0
  /\ \A t \in PreviewThreads : qpc[t] = "idle" /\ qresp[t] = NoPayload

\* A worker whose fetch raises or returns the file.
FrameWorker(w) ==
  \/ Pickup(w)
  \/ RunnerMarkRunning(w)
  \/ FetchRaises(w, VideoUnavailable, <<>>)
  \/ FetchReturns(w, IdName)
  \/ RunnerSetFilename(w)
  \/ RunnerSetDone(w)
  \/ RunnerSetStatusError(w)
  \/ RunnerSetError(w, FALSE)

\* Jobs of several forms run by the pool; at any point of the run a client
\* makes one request to the status, artifact or preview endpoint.
FrameNext ==
  \/ \E u \in Urls, form \in FrameForms : StartDownloadStore(u, form, MaxFrameJobs)
  \/ StartDownloadSubmit
  \/ \E w \in Workers : FrameWorker(w)
  \/ \E j \in 1..MaxFrameJobs : NoRequestYet /\ PollNotFound(j)
  \/ \E j \in 1..MaxFrameJobs : NoRequestYet /\ PollReadStatus(j)
  \/ PollReadFilename
  \/ PollReadError
  \/ \E j \in 1..MaxFrameJobs : NoRequestYet /\ RetrieveNotFound(j)
  \/ \E j \in 1..MaxFrameJobs : NoRequestYet /\ RetrieveReadStatus(j)
  \/ RetrieveResolve
  \/ \E u \in PreviewUrls : NoRequestYet /\ PreviewBegin(1, u, MaxPreviews)
  \/ PreviewAcquire(1)
  \/ PreviewMiss(1)
  \/ \E title \in PreviewTitles : PreviewFetchReturns(1, title)
  \/ \E exc \in PreviewFailures : PreviewFetchRaises(1, exc)
  \/ PreviewStore(1)

FrameSpec == Init /\ [][FrameNext]_vars

-----------------------------------------------------------------------------
(* Properties *)

Statuses(j) == { t[1] : t \in held[j] }

Finished(j) == j \in DOMAIN futures /\ futures[j] \in {"returned", "raised"}

Executing == { j \in DOMAIN futures : futures[j] = "running" }

InQueue(j) == \E i \in 1..Len(work_queue) : work_queue[i] = j

Pos(seq, j) == CHOOSE i \in 1..Len(seq) : seq[i] = j

Has(seq, j) == \E i \in 1..Len(seq) : seq[i] = j

\* C1: the status of a job only ever moves queued -> running -> done or
\* queued -> running -> error: a new job is queued, and every step leaves a
\* status unchanged or takes one of these three moves.
C1_StatusOrder ==
  [][ /\ \A j \in DOMAIN jobs' \ DOMAIN jobs : jobs'[j].status = "queued"
      /\ \A j \in DOMAIN jobs :
           /\ j \in DOMAIN jobs'
           /\ \/ jobs'[j].status = jobs[j].status
              \/ jobs[j].status = "queued" /\ jobs'[j].status = "running"
              \/ jobs[j].status = "running" /\ jobs'[j].status \in {"done", "error"}
    ]_vars

C1_Witness ==
  \E j, k \in Known :
    /\ Statuses(j) = {"queued", "running", "done"}
    /\ Statuses(k) = {"queued", "running", "error"}

\* C2: a job whose task has finished (returned or raised) is never left in
\* status running; a task that raised after marking the job running left it
\* in status error.
C2_NoJobLeftRunning ==
  \A j \in Known : Finished(j) => jobs[j].status \in {"done", "error"}

\* C3: when the extractor raised during the fetch of a job, the exception
\* does not leave the task, no filename is set, and once the task is over the
\* job has status error and a message that begins with the text raised; an
\* idle worker can always take the next queued task.
C3_FetchFailureContained ==
  /\ \A j \in Known :
       fetchRaised[j] # NoText =>
         /\ futures[j] # "raised"
         /\ jobs[j].filename = NoName
         /\ jobs[j].status \in {"running", "error"}
         /\ Finished(j) =>
              /\ jobs[j].status = "error"
              /\ jobs[j].error # NoText
              /\ IsPrefix(fetchRaised[j], jobs[j].error)
  /\ \A w \in Workers :
       (wpc[w] = "idle" /\ work_queue # <<>>) => ENABLED Pickup(w)

C3_Witness ==
  \E j, k \in Known :
    /\ fetchRaised[j] # NoText /\ fetchRaised[j] # <<>>
    /\ Finished(j)
    /\ Len(jobs[j].error) > Len(fetchRaised[j])
    /\ \E w \in Workers : wjob[w] = k /\ wpc[w] = "body"

\* C4: a job whose status is queued or running has no filename and no error
\* message.
C4_NothingSetBeforeTerminal ==
  \A j \in Known :
    jobs[j].status \in {"queued", "running"} =>
      jobs[j].filename = NoName /\ jobs[j].error = NoText

\* C5: a done job has a filename and no error message; an error job has an
\* error message and no filename.
C5_TerminalFields ==
  \A j \in Known :
    /\ jobs[j].status = "done" => jobs[j].filename # NoName /\ jobs[j].error = NoText
    /\ jobs[j].status = "error" => jobs[j].error # NoText /\ jobs[j].filename = NoName

\* C6: every status response reports a (status, filename, error) triple the
\* job held at one single instant.
C6_ResponseIsSnapshot ==
  resp.code = 200 => <<resp.status, resp.filename, resp.error>> \in held[resp.id]

\* C7: at most 2 tasks are being executed at any time, and a job still in
\* the executor's queue has status queued.
C7_AtMostTwoExecuting ==
  /\ Cardinality(Executing) <= 2
  /\ \A j \in Known : InQueue(j) => jobs[j].status = "queued"

C7_Witness ==
  /\ Cardinality(Executing) = 2
  /\ Len(work_queue) >= 2
  /\ \A i \in 1..Len(work_queue) : jobs[work_queue[i]].status = "queued"

\* C8: a job is in the registry with status queued before it is submitted,
\* every submitted job is in the registry, and the submit of a request in
\* flight can always be taken, whatever the workers are doing.
C8_StoreThenSubmitWithoutWaiting ==
  /\ dpc = "submit" =>
       /\ djob \in Known
       /\ jobs[djob].status = "queued"
       /\ ~Has(submitted, djob)
       /\ ENABLED StartDownloadSubmit
  /\ \A i \in 1..Len(submitted) : submitted[i] \in Known

C8_Witness ==
  /\ \A w \in Workers : wpc[w] = "body"
  /\ dpc = "idle"
  /\ \E j \in Known : j \in waited /\ InQueue(j) /\ jobs[j].status = "queued"

\* C9: of two jobs that both had to wait for a worker, the one submitted
\* first is picked up first.
C9_PickupInSubmissionOrder ==
  \A a, b \in waited :
    (Pos(submitted, a) < Pos(submitted, b) /\ Has(started, b)) =>
      (Has(started, a) /\ Pos(started, a) < Pos(started, b))

C9_Witness ==
  \E a, b \in waited :
    /\ Pos(submitted, a) < Pos(submitted, b)
    /\ Has(started, a) /\ Has(started, b)

\* C10: every submitted job is eventually picked up and leaves status queued.
C10_EveryJobLeavesQueued ==
  \A j \in 1..MaxFairJobs :
    Has(submitted, j) ~> (j \in Known /\ jobs[j].status # "queued")

C10_Witness ==
  \E j \in waited : jobs[j].status # "queued"

-----------------------------------------------------------------------------
(* Properties of the preview cache *)

\* The step in which preview thread t leaves the `with` block of line 529.
LookupDecides(t) == qpc[t] = "locked" /\ qpc'[t] # "locked"

\* The lookup of thread t is served from the cache: the payload of the
\* entry is returned and the adapter is not called.
ServedFromCache(t) ==
  /\ qpc'[t] = "idle"
  /\ qresp'[t] = OkPayload(preview_cache[qurl[t]])
  /\ calls' = calls
  /\ preview_cache' = preview_cache

\* The lookup of thread t goes to the adapter and leaves the cache as it is.
GoesToAdapter(t) ==
  /\ qpc'[t] = "adapter"
  /\ calls' = [calls EXCEPT ![qurl[t]] = @ + 1]
  /\ preview_cache' = preview_cache

\* C11, as stated: a request for a URL issued less than 180 seconds after
\* the time at which the fetch of its cached record succeeded is served from
\* the cache without an adapter call; one issued 180 seconds or more after
\* that time calls the adapter, the entry still being in the cache.
C11_FreshSinceFetch ==
  [][\A t \in PreviewThreads :
       LookupDecides(t) /\ stored[qurl[t]] # NoStore =>
         IF qnow[t] - stored[qurl[t]].at < PreviewTtl
         THEN ServedFromCache(t)
         ELSE GoesToAdapter(t) /\ preview_cache[qurl[t]] # NoPreview]_vars

\* C11, amended: the 180 seconds are counted from the capture timestamp of
\* the cached record, which is the time read at the start of the request
\* that fetched it, before its adapter call: a request whose own start time
\* is less than 180 seconds after it is served from the cache without an
\* adapter call; one that starts 180 seconds or more after it calls the
\* adapter, the stale entry still being in the cache.
C11_FreshSinceCapture ==
  [][\A t \in PreviewThreads :
       LookupDecides(t) /\ preview_cache[qurl[t]] # NoPreview =>
         /\ preview_cache[qurl[t]].ts <= stored[qurl[t]].at
         /\ IF qnow[t] - preview_cache[qurl[t]].ts < PreviewTtl
            THEN ServedFromCache(t)
            ELSE GoesToAdapter(t) /\ preview_cache[qurl[t]] # NoPreview]_vars

\* A request that started exactly 180 seconds after the capture timestamp of
\* the entry of its URL is in the adapter, and the entry is still there.
C11_Witness ==
  \E t \in PreviewThreads :
    /\ qpc[t] = "adapter"
    /\ preview_cache[qurl[t]] # NoPreview
    /\ qnow[t] - preview_cache[qurl[t]].ts = PreviewTtl

\* C12: a thread that is in the adapter call, or between that call and its
\* store, does not hold the cache lock (so threads are in the adapter at the
\* same time, for different URLs or for the same one), and the cache holds
\* for every URL the record of the store that came last.
C12_LockNotHeldInAdapter ==
  /\ \A t \in PreviewThreads : qpc[t] \in {"adapter", "store"} => preview_lock # t
  /\ \A u \in PreviewUrls : preview_cache[u] = stored[u].rec

\* Two requests for one URL both missed at time 0, both called the adapter,
\* got different titles and have returned; the cache holds the last store.
C12_Witness ==
  \E u \in PreviewUrls :
    /\ ticks = 0
    /\ calls[u] = 2
    /\ \A t \in PreviewThreads : qpc[t] = "idle" /\ qresp[t].ok /\ qresp[t].url = u
    /\ qresp[1].title # qresp[2].title
    /\ preview_cache[u] = stored[u].rec
    /\ preview_cache[u].title \in {qresp[1].title, qresp[2].title}

\* C13: when the extractor raises in a preview, the request returns (it does
\* not raise) a failure payload that carries the text of the exception, and
\* the cache is left as it was.
C13_PreviewFailureContained ==
  [][\A t \in PreviewThreads :
       qpc[t] = "adapter" /\ qpc'[t] = "idle" =>
         /\ qresp'[t].code = 200
         /\ ~qresp'[t].ok
         /\ qresp'[t].url = qurl[t]
         /\ qresp'[t].error \in (PreviewFailures \ {<<>>}) \cup {ExcClassName}
         /\ preview_cache' = preview_cache]_vars

\* A preview failed 180 seconds after a successful one for the same URL: the
\* failure payload was returned and the stale entry is still in the cache.
C13_Witness ==
  \E t \in PreviewThreads :
    /\ qpc[t] = "idle"
    /\ qresp[t].code = 200 /\ ~qresp[t].ok
    /\ qresp[t].error = <<"ERROR:", "Unsupported", "URL">>
    /\ preview_cache[qresp[t].url] # NoPreview
    /\ calls[qresp[t].url] = 2

-----------------------------------------------------------------------------
(* Properties of the request handlers *)

\* C14: a download request or a preview request whose URL is empty once
\* stripped is answered with HTTP 400 in the step that handles it, and that
\* step leaves the registry, the futures, the queue of the pool, the cache
\* and the count of adapter calls unchanged.
C14_BlankUrlCreatesNothing ==
  [][/\ (Strip(dreq') = <<>> /\ <<dreq, dcode>>' # <<dreq, dcode>>) =>
          /\ dcode' = 400
          /\ dpc' = "idle"
          /\ UNCHANGED <<jobs, futures, work_queue, cachevars>>
     /\ \A t \in PreviewThreads :
          (Strip(qreq'[t]) = <<>> /\ <<qreq[t], qresp[t]>>' # <<qreq[t], qresp[t]>>) =>
            /\ qresp'[t].code = 400
            /\ qpc'[t] = "idle"
            /\ UNCHANGED <<jobs, futures, work_queue, cachevars>>]_vars

\* After one accepted download, a download with a URL of spaces and a
\* preview with an empty URL were rejected; the job is still the only one.
C14_Witness ==
  /\ Len(jobs) = 1
  /\ dreq = <<" ", " ">> /\ dcode = 400
  /\ \E t \in PreviewThreads : qreq[t] = <<>> /\ qresp[t].code = 400
  /\ \A u \in PreviewUrls : calls[u] = 0

\* C17: no step removes an id from the registry; a status query is answered
\* not-found only for an id that no request has created, and looks at a job
\* only for an id that was created.
C17_JobsAreNeverRemoved ==
  [][/\ DOMAIN held \subseteq DOMAIN jobs'
     /\ (resp' # resp /\ resp'.code = 404) => resp'.id \notin DOMAIN held
     /\ (resp' # resp /\ resp'.code = 200) => resp'.id \in DOMAIN held
     /\ (pjob' # pjob /\ pjob' # NoJob) => pjob' \in DOMAIN held]_vars

\* A status query found the first job after it finished and after a second
\* job was created.
C17_Witness ==
  /\ Len(jobs) = 2
  /\ resp.code = 200
  /\ resp.id = 1
  /\ Finished(1)

-----------------------------------------------------------------------------
(* Properties of the artifact and of its retrieval *)

NotReadyStatuses == {"queued", "running", "error"}

\* C15: a retrieval answers with the file only for a job that is done and
\* has its filename set, not-ready (409) for a known job that is queued,
\* running or in error, and not-found for an unknown id, whatever the Runner
\* is doing.
C15_RetrievalByStatus ==
  [][aresp' # aresp =>
       /\ aresp'.code \in {200, 404, 409}
       /\ aresp'.code = 200 =>
            /\ aresp'.id \in Known
            /\ jobs[aresp'.id].status = "done"
            /\ jobs[aresp'.id].filename # NoName
            /\ aresp'.filename = jobs[aresp'.id].filename
       /\ aresp'.code = 409 =>
            aresp'.id \in Known /\ jobs[aresp'.id].status \in NotReadyStatuses
       /\ aresp'.code = 404 => aresp'.id \notin Known
       /\ aresp'.id \notin Known => aresp'.code = 404
       /\ (aresp'.id \in Known /\ jobs[aresp'.id].status \in NotReadyStatuses) =>
            aresp'.code = 409]_vars

\* The file of a done job was served.
C15_Witness ==
  /\ aresp.code = 200
  /\ aresp.id \in Known
  /\ jobs[aresp.id].status = "done"
  /\ aresp.filename = jobs[aresp.id].filename

\* C16: the working directory of a done job holds a file that has the job's
\* filename and is not empty, and no retrieval answers that the file of a
\* job was not found.
C16_DoneFileExists ==
  /\ \A j \in Known :
       jobs[j].status = "done" =>
         \E f \in Dir(j) : f.name = jobs[j].filename /\ f.size > 0
  /\ aresp.detail # "Fisierul nu a fost gasit"

\* A job is done under a name that was moved out of the way of an existing
\* file, and its file was served.
C16_Witness ==
  \E j \in Known :
    /\ jobs[j].status = "done"
    /\ jobs[j].filename = "title [id] (1).mp4"
    /\ aresp.code = 200
    /\ aresp.id = j

\* C19: a job one of whose finalization steps raised, after its artifact
\* was produced and found not empty, is never in error, and ends done under
\* the id-based name.
C19_FinalizationNeverFails ==
  \A r \in finfail :
    /\ "error" \notin Statuses(r.job)
    /\ Finished(r.job) => jobs[r.job].status = "done" /\ jobs[r.job].filename = IdName

\* C20: when extract_info has returned and the working directory holds no
\* file, the job is never done and ends in error; when the latest file has
\* size zero, the job is never done, its filename is never set, no file of
\* its directory is renamed, and it ends in error with the text that names
\* the empty file.
C20_MissingOrEmptyArtifact ==
  \A r \in fetched :
    /\ r.files = {} =>
         /\ "done" \notin Statuses(r.job)
         /\ Finished(r.job) =>
              jobs[r.job].status = "error" /\ IsPrefix(NoFileError, jobs[r.job].error)
    /\ (r.files # {} /\ PickLatestFile(r.files).size = 0) =>
         /\ "done" \notin Statuses(r.job)
         /\ \A tr \in held[r.job] : tr[2] = NoName
         /\ Dir(r.job) = r.files
         /\ Finished(r.job) =>
              /\ jobs[r.job].status = "error"
              /\ IsPrefix(EmptyFileError, jobs[r.job].error)
              /\ Contains(jobs[r.job].error, <<"0", "bytes">>)

\* A job whose directory held the artifact and a newer file of size zero
\* has ended in error.
C20_Witness ==
  \E r \in fetched :
    /\ r.files = {File(IdName, 5, 1), File("id.jpg", 0, 2)}
    /\ Finished(r.job)
    /\ jobs[r.job].status = "error"

-----------------------------------------------------------------------------
(* Properties of the classification *)

\* The rules of the classification in their order, for the lowercase text,
\* the lowercase URL and the presence of a cookie file.
RuleMatches(low, url_low, cookiefile) ==
  << Contains(low, <<"unavailable">>),
     Contains(low, <<"0", "bytes">>) \/ Contains(low, <<"downloaded file is empty">>),
     Contains(low, <<"unsupported", "url">>),
     Contains(url_low, <<"facebook">>) /\ ~cookiefile >>

RuleHints ==
  << <<"hint: unavailable">>, <<"hint: empty file">>, <<"hint: unsupported url">>,
     <<"hint: facebook cookies">> >>

FirstMatch(m) ==
  IF \E i \in 1..Len(m) : m[i]
  THEN CHOOSE i \in 1..Len(m) : m[i] /\ \A k \in 1..(i - 1) : ~m[k]
  ELSE 0

\* C18: the message carries the hint of the first rule that matches, in the
\* order unavailable, empty file, unsupported url, Facebook without cookies,
\* and no other hint; it carries none when no rule matches; the text
\* "Video unavailable" gets the hint of unavailability.
C18_FirstMatchingRule ==
  cout # NoText =>
    LET base == IF cin.exc # <<>> THEN cin.exc ELSE ExcClassName
        first == FirstMatch(RuleMatches(Lower(base), Lower(cin.url), cin.cookiefile))
    IN /\ cout = base \o (IF first = 0 THEN <<>> ELSE RuleHints[first]) \o LogTail(cin.lines)
       /\ \A k \in 1..Len(RuleHints) : Contains(cout, RuleHints[k]) <=> k = first
       /\ Contains(cin.exc, <<"Video", "unavailable">>) => Contains(cout, RuleHints[1])

\* A text that matches the first two rules, for a Facebook URL without a
\* cookie file, was classified.
C18_Witness ==
  /\ cin.exc = <<"Unavailable", "Downloaded file is empty">>
  /\ cin.url = FacebookUrl
  /\ ~cin.cookiefile
  /\ cout # NoText

-----------------------------------------------------------------------------
(* C21 *)

HasChar(s, cs) == \E i \in 1..Len(s) : SubSeq(s, i, i) \in cs

\* C21: the result of the sanitizer holds none of the characters
\* < > : " / \ | ? * and no control character, has at most 140 characters,
\* is not empty ("download" when cleaning leaves nothing), and neither
\* starts nor ends with a space or a dot.
C21_SanitizedName ==
  sclean # NoName =>
    /\ ~HasChar(sclean, InvalidChars \cup ControlChars)
    /\ Len(sclean) <= 140
    /\ sclean # ""
    /\ Head(sclean) \notin {" ", "."}
    /\ SubSeq(sclean, Len(sclean), Len(sclean)) \notin {" ", "."}
    /\ (~HasChar(sname, {"a", "/", "\t"}) => sclean = "download")

\* A name longer than 140 characters was cut, and the cut left a space or a
\* dot at the end, which was removed.
C21_Witness ==
  /\ sclean # NoName
  /\ Len(sname) > 140
  /\ Len(sclean) < 140
  /\ HasChar(sname, {"/"})
-----------------------------------------------------------------------------
(* C23, C22 *)

DedupeReturns == Len(pathgot') = Len(pathgot) + 1

\* C23: a call returns the desired path when it does not exist; otherwise the
\* sibling "name (i)" plus extension with the smallest i of 1..99 that does
\* not exist; the desired path itself when it and all 99 siblings exist; and
\* it leaves the directory as it was.
C23_DedupeResult ==
  [][DedupeReturns =>
       LET r == pathgot'[Len(pathgot')]
           stem == Stem(pathwant)
           ext == Suffix(pathwant)
           sibling(i) == stem \o " (" \o ToString(i) \o ")" \o ext
       IN /\ pathfs' = pathfs
          /\ pathwant \notin pathfs => r = pathwant
          /\ pathwant \in pathfs =>
               \/ \E i \in 1..99 :
                    /\ r = sibling(i)
                    /\ r \notin pathfs
                    /\ \A k \in 1..(i - 1) : sibling(k) \in pathfs
               \/ /\ \A i \in 1..99 : sibling(i) \in pathfs
                  /\ r = pathwant]_vars

\* The desired name and its first 98 siblings exist and the call returned the
\* 99th; or all 99 exist and it returned the desired name.
C23_Witness ==
  /\ pathgot # <<>>
  /\ pathwant = "a.mp4"
  /\ pathgot[1] = "a (99).mp4"
  /\ "a (98).mp4" \in pathfs

\* C22 as stated: two calls for the same desired path, with a file created at
\* the first returned path in between and nothing deleted, return two
\* distinct paths.
C22_TwoDistinctPaths ==
  Len(pathgot) = 2 => pathgot[1] # pathgot[2]

Exhausted ==
  /\ pathwant \in pathfs
  /\ \A i \in 1..99 : Candidate(pathwant, i) \in pathfs

\* C22 amended: the two returned paths are distinct unless the first call
\* returned the desired path and, at the second call, the desired path and
\* all its 99 numbered siblings exist; then the second call returns the
\* desired path again.
C22_TwoDistinctPathsUnlessExhausted ==
  Len(pathgot) = 2 =>
    IF Exhausted /\ pathgot[1] = pathwant
    THEN pathgot[2] = pathwant
    ELSE pathgot[1] # pathgot[2]

\* The desired path was free, was created, and the second call returned its
\* first sibling.
C22_Witness ==
  /\ Len(pathgot) = 2
  /\ pathgot[1] = pathwant
  /\ pathgot[2] = Candidate(pathwant, 1)
-----------------------------------------------------------------------------
(* C24 *)

\* What C24 takes the options to depend on.
KindPrefEngine(in) == <<in.job.download_type, in.job.audio_format, in.ffmpeg_dir # NoName>>

\* C24 as stated: the options built by the Runner are a function of the
\* download kind, the audio preference and whether ffmpeg is available, and
\* of nothing else.
C24_OptionsOfKindPrefEngineOnly ==
  \A i, k \in 1..Len(optout) :
    KindPrefEngine(optin[i]) = KindPrefEngine(optin[k]) => optout[i] = optout[k]

Without(opts, keys) == [k \in DOMAIN opts \ keys |-> opts[k]]

\* C24 amended: format, post-processing, merge container, fixup and playlist
\* expansion are as the table of (kind, preference, engine) says; the other
\* options are the same for every job, except that the options also hold
\* the cookie file when there is one, the location of ffmpeg when there is
\* one, and the output template in the job's own directory.
C24_OptionsTable ==
  \A i \in 1..Len(optout) :
    LET in == optin[i]
        opts == optout[i]
        audio == in.job.download_type = "audio"
        mp3 == in.job.audio_format = "mp3"
        engine == in.ffmpeg_dir # NoName
    IN /\ opts.format = IF audio THEN "bestaudio/best"
                        ELSE IF engine THEN "bv*+ba/best" ELSE "best[ext=mp4]/best"
       /\ "postprocessors" \in DOMAIN opts <=> audio /\ mp3 /\ engine
       /\ "postprocessors" \in DOMAIN opts =>
            /\ Len(opts.postprocessors) = 1
            /\ opts.postprocessors[1].key = "FFmpegExtractAudio"
            /\ opts.postprocessors[1].preferredcodec = "mp3"
       /\ "merge_output_format" \in DOMAIN opts <=> ~audio /\ engine
       /\ "merge_output_format" \in DOMAIN opts => opts.merge_output_format = "mp4"
       /\ "fixup" \in DOMAIN opts <=> ~engine
       /\ "fixup" \in DOMAIN opts => opts.fixup = "never"
       /\ opts.noplaylist = TRUE
       /\ "cookiefile" \in DOMAIN opts <=> in.cookiefile # NoName
       /\ "ffmpeg_location" \in DOMAIN opts <=> engine
       /\ \A k \in 1..Len(optout) :
            KindPrefEngine(optin[k]) = KindPrefEngine(in) =>
              Without(optout[k], {"cookiefile", "ffmpeg_location", "outtmpl"})
                = Without(opts, {"cookiefile", "ffmpeg_location", "outtmpl"})

\* The options were built for an mp3 download without ffmpeg, and for the
\* same form with and without a cookie file.
C24_Witness ==
  /\ Len(optout) = 2
  /\ KindPrefEngine(optin[1]) = <<"audio", "mp3", FALSE>>
  /\ KindPrefEngine(optin[2]) = <<"audio", "mp3", FALSE>>
  /\ optin[1].cookiefile = NoName
  /\ optin[2].cookiefile # NoName
-----------------------------------------------------------------------------
(* C25 *)

\* The last n elements of s, all of them when there are fewer.
LastOf(s, n) ==
  LET m == IF Len(s) < n THEN Len(s) ELSE n
  IN [i \in 1..m |-> s[Len(s) - m + i]]

\* C25: the log holds at most 200 lines, the most recently appended ones in
\* the order they were appended; the error message is the base text, then
\* the hint if any, then the header and the last 25 lines of the log (all
\* of them when fewer, nothing when the log is empty).
C25_LogCapAndTail ==
  /\ Len(loglines) <= 200
  /\ loglines = LastOf(logall, 200)
  /\ logmsg # NoText =>
       \E exc \in LogFailures :
         LET base == IF exc = <<>> THEN ExcClassName ELSE exc
             hint == IF exc = VideoUnavailable THEN <<"hint: unavailable">> ELSE <<>>
             tail == IF logall = <<>> THEN <<>>
                     ELSE <<"Detalii (yt-dlp):">> \o LastOf(logall, 25)
         IN logmsg = base \o hint \o tail

\* More than 200 lines were appended, the first ones were dropped, and the
\* message was built.
C25_Witness ==
  /\ Len(logall) > 200
  /\ Len(loglines) = 200
  /\ loglines[1] # logall[1]
  /\ logmsg # NoText
  /\ Len(logmsg) = 3 + 1 + 1 + 25
-----------------------------------------------------------------------------
(* C26 *)

\* The step is taken by job_status, download_file or preview.
ReadOnlyStep == pvars' # pvars \/ avars' # avars \/ rvars' # rvars

\* C26: id, url, download_type and audio_format of a job never change; a job
\* changes only in a step of the Runner that was invoked for it, and then
\* only in status, filename and error; the steps of job_status,
\* download_file and preview change no job.
C26_Frame ==
  [][/\ \A j \in 1..Len(jobs) :
          /\ j <= Len(jobs')
          /\ jobs'[j].id = jobs[j].id
          /\ jobs'[j].url = jobs[j].url
          /\ jobs'[j].download_type = jobs[j].download_type
          /\ jobs'[j].audio_format = jobs[j].audio_format
          /\ jobs'[j] # jobs[j] => \E w \in Workers : wjob[w] = j /\ wpc'[w] # wpc[w]
     /\ ReadOnlyStep => jobs' = jobs]_vars

\* Two jobs of different forms exist, the first was run to done by its
\* Runner while the second is still as it was created, and job_status has
\* answered for the first.
C26_Witness ==
  /\ Len(jobs) = 2
  /\ jobs[1].download_type # jobs[2].download_type
  /\ jobs[1].status = "done"
  /\ jobs[1].filename # NoName
  /\ jobs[2] = NewJob(JobIdText(2), YoutubeUrl, "audio", "original")
  /\ resp.code = 200
  /\ resp.id = 1
  /\ resp.status = "done"
-----------------------------------------------------------------------------
(* C27, C28 *)

Running == { j \in Known : jobs[j].status = "running" }

\* C27: in every reachable state at most 2 jobs, the capacity of the pool,
\* have status running.
C27_AtMostTwoRunning == Cardinality(Running) <= 2

\* C28 as stated: for every URL the capture timestamp of the cache entry
\* never decreases, whatever the interleaving of the requests.
C28_TimestampNeverDecreases ==
  [][\A u \in PreviewUrls : preview_cache'[u].ts >= preview_cache[u].ts]_vars

\* Thread t stores in this step.
Stores(t) == qpc[t] = "store" /\ qpc'[t] = "idle"

\* C28 amended: the cache changes only by a store, which replaces the entry
\* of its URL by the writer's record whatever the timestamps (last writer
\* wins); the timestamp of an entry decreases only when the writer started
\* before the request that wrote the replaced entry, and was in flight when
\* that entry was stored.
C28_LastWriterWins ==
  [][/\ \A t \in PreviewThreads :
          Stores(t) =>
            /\ preview_cache'[qurl[t]] = NewPreview(qurl[t], qval[t], qnow[t])
            /\ preview_cache'[qurl[t]].ts < preview_cache[qurl[t]].ts =>
                 /\ qnow[t] < preview_cache[qurl[t]].ts
                 /\ qnow[t] < stored[qurl[t]].at
                 /\ stored[qurl[t]].at <= now
     /\ \A u \in PreviewUrls :
          preview_cache'[u] # preview_cache[u] =>
            \E t \in PreviewThreads : Stores(t) /\ qurl[t] = u]_vars

\* A request that started before the entry of its URL was captured is about
\* to store over it.
C28_Witness ==
  \E t \in PreviewThreads :
    /\ qpc[t] = "store"
    /\ preview_lock = NoThread
    /\ preview_cache[qurl[t]] # NoPreview
    /\ qnow[t] < preview_cache[qurl[t]].ts

====
